---- MODULE Spec2Model ----
(***************************************************************************)
(* A model of the Multimap key-value store.                                *)
(*                                                                         *)
(* Spec: one partition (Shard / Table): the key table, the per-key lists   *)
(* with their lazily created readers-writer locks, the block store, and    *)
(* the threads that run put, get, contains, remove, replace, forEachKey,   *)
(* flush, getStats, close and open on it.                                  *)
(* MapSpec: the map as a whole: the handles that open its directory under  *)
(* the directory lock, and the dispatch of each key to its partition.      *)
(* VecSpec: one UintVector (the block ids of a list head) and the calls of *)
(* add and unpack on it.                                                   *)
(* IterSpec, ProcedureSpec, StatsSpec, OptimizeSpec: the partition of Spec *)
(* with fewer calls and finer steps: an iterator walked value by value, a  *)
(* forEachKey procedure that calls the table again, getStats entry by      *)
(* entry, and optimize on the files a close has written.                   *)
(* CrashSpec, LockSpec, ScanSpec, ThrowSpec, CommitSpec, HolderFairSpec,   *)
(* ReplaceSpec: close written file by file with a stop of the process, the *)
(* lock of one list alone, forEachEntry with the store's access advice, a  *)
(* forEachKey procedure that throws, a list committing blocks to a growing *)
(* store, a put by a thread that holds a list, and replace step by step.   *)
(***************************************************************************)
EXTENDS Naturals, Sequences, FiniteSets, TLC

(* ------------------------------ bounds -------------------------------- *)
NumThreads == 2
NumKeys == 2
NumValues == 2
MaxOps == 3
\* Block size in bytes, scaled down (Shard::Options::block_size is 512).
BlockSize == 4
\* Map handles opened on one directory, partitions of the map, and the number
\* of values put through a map handle.
NumHandles == 2
NumPartitions == 3
MaxMapPuts == 2
\* Values held by the single UintVector of VecSpec and failed adds made on it.
MaxVecLen == 2
MaxVecFails == 2
\* Puts on one key between the opens and closes of the table whose close is
\* followed file by file.
MaxHead == 2
\* Threads that lock and unlock the lists when the lock is taken alone.
NumLockers == 3
\* Blocks one list commits, and the times other lists add blocks to its store.
MaxCommits == 3
MaxGrowths == 2

(* --------------------------- program constants ------------------------ *)
\* Bytes a value occupies in a block besides its payload (varint length
\* with the deleted bit folded in; one byte for the sizes modelled).
HeaderSize == 1
\* Varint::Limits::N4_MAX_UINT, the largest delta a UintVector stores.
N4_MAX_UINT == 268435455

Threads == 1..NumThreads
\* The threads that use the locks of the lists in LockSpec.
Lockers == 1..NumLockers
Keys == 1..NumKeys

\* A file of keys: absent, or the u32 count at its start (hasCount is FALSE
\* while no byte of it is in the file) followed by the entries written.
Missing == [exists |-> FALSE]
EmptyFile == [exists |-> TRUE, hasCount |-> FALSE, num_keys |-> 0, entries |-> <<>>]
KeysFileOf(entries) ==
  [exists |-> TRUE, hasCount |-> TRUE, num_keys |-> Len(entries), entries |-> entries]
NoEntry == [head |-> 0, locked |-> FALSE]
NotClosing == [pc |-> "open", todo |-> <<>>, num_keys |-> 0, num_keys_written |-> 0,
               flushed |-> FALSE, before |-> Missing, after |-> Missing]
NotFound == [tried |-> FALSE, file |-> Missing, before |-> Missing, after |-> Missing]
\* Values 1..NumValues are small; BigValue is as large as a whole block.
SmallValues == 1..NumValues
BigValue == NumValues + 1
Values == SmallValues \cup {BigValue}
SizeOf(v) == IF v > NumValues THEN (5 * BlockSize) \div 2 ELSE 1 + (v % 2)

NoList == [absent |-> TRUE]
NoIter == [active |-> FALSE]
NoOutput == [written |-> FALSE]
NoNested == [op |-> "none", key |-> 0, pc |-> "none"]

\* The handles opened on the map's directory, the indexes of its partitions,
\* and the keys put through the map, as byte strings.
Handles == 1..NumHandles
Partitions == 0..(NumPartitions - 1)
MapKeys == {<<>>, <<97>>, <<99>>, <<97, 98>>}
NoGot == [key |-> <<>>, values |-> <<>>, called |-> FALSE]
NoRoute == [key |-> <<>>, index |-> 0, called |-> FALSE]

\* No call was made on the vector yet.
NoCall == [op |-> "none", value |-> 0, ok |-> FALSE, crashed |-> FALSE, values |-> <<>>]

VARIABLES
  isOpen,      \* Table: path_ is non-empty
  map_,        \* Table::map_, key -> List (or NoList when the key is absent)
  store,       \* Store: the committed blocks; block id i is store[i + 1]
  keysFile,    \* the keys file on disk: a set of [key, head] entries
  tableReaders,\* Table::mutex_: threads holding it shared
  pc,          \* each thread's position
  arg,         \* each thread's current operation and its arguments
  held,        \* each thread's list handle on arg.key: none, shared, unique
  todo,        \* for a table scan: the entries not yet visited
  err,         \* each thread's last operation failed with an exception
  nops,        \* operations started so far (bounded by MaxOps)
  ret,         \* each thread's result of its current or last call
  hist,        \* history: per key the values appended, with a removed mark
  lockOrder,   \* history: per key the values in the order their appenders
               \* acquired the unique lock
  visits,      \* history: per thread the entries its forEachKey visited
  calls,       \* history: per thread the keys its procedure was called with
  preClose,    \* history: per key what was readable when close began
  iter,        \* each thread's iterator, when it walks one step by step
  nested,      \* the call a forEachKey procedure makes on the table
  tableWriters,\* threads waiting for the table lock exclusively
  output,      \* the map the last optimize wrote
  skipped      \* history: the keys close skipped because they were locked

\* The map as a whole: its directory lock and its partitions, each partition
\* taken as the values an iteration of each of its keys yields.
VARIABLES
  lock_,       \* the directory lock (Map::lock_): its holder, or 0 when free
  maps,        \* each Map handle: "closed", "open", or "locked" (open failed)
  partitions_, \* Map::partitions_: per partition index, per key, its values
  expected,    \* history: per key the values the calls on the map leave in it
  routed,      \* history: the key of the last call on one key and the index of
               \* the partition the call went to
  got          \* the key and the values of the last Map::get

tablevars == <<isOpen, map_, store, keysFile, tableReaders, pc, arg, held, todo,
               err, nops, ret, hist, lockOrder, visits, calls, preClose, skipped,
               iter, nested, tableWriters, output>>

mapvars == <<lock_, maps, partitions_, expected, routed, got>>

\* One UintVector on its own, and the calls made on it.
VARIABLES
  vector,      \* the vector
  vecCall,     \* the last call on the vector, its argument and its result
  vecBefore    \* history: what the vector held before the add that failed, when
               \* no add has succeeded since

vecvars == <<vector, vecCall, vecBefore>>

\* Table::close file by file, and the process stopping inside it.
VARIABLES
  disk,        \* the files of the partition: the keys file and its backup
  loaded,      \* the key table in memory: per key its head and whether
               \* another thread holds the list's lock
  closing,     \* the position of close and what it has written so far
  reopened     \* history: what the open after a stop found at the path

crashvars == <<disk, loaded, closing, reopened>>

\* The lock of a list on its own: threads that lock, try to lock and unlock
\* the lists in any order.
VARIABLES
  locks,       \* per key a list, of which mutex_ and mutex_use_count_ matter
  locker,      \* per thread the list it waits for or holds, and how
  tried        \* the last TryLockShared or TryLockUnique and what it returned

lockvars == <<locks, locker, tried>>

\* Shard::forEachEntry and the access pattern it advises to the store.
VARIABLES
  pattern,     \* the access pattern the store was advised last
  scanner      \* per thread its forEachEntry: where it is, the keys it has
               \* still to visit, and how its last scan ended

scanvars == <<pattern, scanner>>

\* One list committing its blocks to a store that other lists fill as well.
VARIABLES
  committing   \* the list, the id the store returns next, the ids it has
               \* returned to the list, and whether an assertion has failed

commitvars == <<committing>>

\* Shard::replace by its steps.
VARIABLES
  to_append \* per thread the replacements it has still to append

replacevars == <<to_append>>

detailvars == <<crashvars, lockvars, scanvars, commitvars, replacevars>>

\* All variables but those of one of the detailed views.
besidesCrash == <<tablevars, mapvars, vecvars, lockvars, scanvars, commitvars, replacevars>>
besidesLocks == <<tablevars, mapvars, vecvars, crashvars, scanvars, commitvars, replacevars>>
besidesScans == <<tablevars, mapvars, vecvars, crashvars, lockvars, commitvars, replacevars>>
besidesCommits == <<tablevars, mapvars, vecvars, crashvars, lockvars, scanvars, replacevars>>

vars == <<tablevars, mapvars, vecvars, detailvars>>

(* ------------------------------ UintVector ---------------------------- *)
\* A UintVector holds varint deltas followed by the last value in raw form.
\* cut counts the bytes a failed add has taken off the end (offset_).
EmptyVector == [deltas |-> <<>>, last |-> 0, cut |-> 0]

RECURSIVE SumUpTo(_, _)
SumUpTo(s, n) == IF n = 0 THEN 0 ELSE s[n] + SumUpTo(s, n - 1)

\* Bytes of the varint of a delta: seven bits of it per byte.
VarintSize(d) ==
  IF d <= 127 THEN 1 ELSE IF d <= 16383 THEN 2 ELSE IF d <= 2097151 THEN 3 ELSE 4

RECURSIVE VarintBytes(_)
VarintBytes(deltas) ==
  IF deltas = <<>> THEN 0 ELSE VarintSize(Head(deltas)) + VarintBytes(Tail(deltas))

\* The bytes written: the varints and the four bytes of the last value.
UintVector_written(vec) ==
  IF vec.deltas = <<>> THEN 0 ELSE VarintBytes(vec.deltas) + 4

\* offset_ lies before the start of the buffer (it wrapped around).
UintVector_wild(vec) == vec.cut > UintVector_written(vec)

\* UintVector::empty: offset_ == 0.
UintVector_empty(vec) == vec.cut = UintVector_written(vec)

\* UintVector::unpack while offset_ is where the last add left it.
UintVector_unpack(vec) == [i \in 1..Len(vec.deltas) |-> SumUpTo(vec.deltas, i)]

\* The longest prefix of the deltas whose varints lie in the first n bytes.
RECURSIVE PrefixWithin(_, _)
PrefixWithin(deltas, n) ==
  IF deltas = <<>> \/ VarintSize(Head(deltas)) > n THEN <<>>
  ELSE <<Head(deltas)>> \o PrefixWithin(Tail(deltas), n - VarintSize(Head(deltas)))

\* Values read from bytes that hold no value of the vector.
GarbageValues == {0, N4_MAX_UINT}

\* UintVector::unpack in general: it reads varints from the first
\* offset_ - 4 bytes.  After a failed add these end inside the varints, or,
\* when fewer than four bytes of varints are written, offset_ - 4 wraps around
\* and the loop reads on behind the buffer.
UintVector_unpack_outcomes(vec) ==
  LET exact == UintVector_unpack(vec)
      varints == VarintBytes(vec.deltas)
      kept == PrefixWithin(vec.deltas, varints - vec.cut)
      keptValues == [i \in 1..Len(kept) |-> SumUpTo(kept, i)]
  IN IF vec.cut = 0 THEN {[crashed |-> FALSE, values |-> exact]}
     ELSE IF UintVector_empty(vec) THEN {[crashed |-> FALSE, values |-> <<>>]}
     ELSE IF vec.cut > varints
       THEN {[crashed |-> TRUE, values |-> <<>>]}
              \cup {[crashed |-> FALSE, values |-> Append(exact, g)] : g \in GarbageValues}
     ELSE IF VarintBytes(kept) = varints - vec.cut
       THEN {[crashed |-> FALSE, values |-> keptValues]}
     ELSE {[crashed |-> TRUE, values |-> <<>>],
           [crashed |-> FALSE, values |-> keptValues]}
            \cup {[crashed |-> FALSE, values |-> Append(keptValues, g)] : g \in GarbageValues}

\* The branch of UintVector::add for a vector that is not empty, with
\* prev_value the value it read from the four bytes below offset_: offset_ is
\* moved down by four, the assertion prev_value < value is made, and the
\* delta is written over what follows, or false is returned with offset_
\* left where it is.
UintVector_add_after(vec, value, prev_value) ==
  IF ~(prev_value < value)
  THEN [vec |-> [vec EXCEPT !.cut = @ + 4], ok |-> FALSE, crashed |-> TRUE]
  ELSE IF value - prev_value <= N4_MAX_UINT
  THEN [vec |-> IF vec.cut = 0
                THEN [vec EXCEPT !.deltas = Append(@, value - prev_value),
                                 !.last = value]
                ELSE IF UintVector_wild(vec)
                THEN [vec EXCEPT !.cut = @ - VarintSize(value - prev_value)]
                ELSE [deltas |-> Append(PrefixWithin(vec.deltas,
                                          VarintBytes(vec.deltas) - vec.cut),
                                        value - prev_value),
                      last |-> value, cut |-> 0],
        ok |-> TRUE, crashed |-> FALSE]
  ELSE [vec |-> [vec EXCEPT !.cut = @ + 4], ok |-> FALSE, crashed |-> FALSE]

\* UintVector::add on a vector whose offset_ is where the last add left it:
\* the four bytes below offset_ hold the last value.
UintVector_add(vec, value) ==
  IF vec.deltas = <<>>
  THEN IF value <= N4_MAX_UINT
       THEN [vec |-> [vec EXCEPT !.deltas = <<value>>, !.last = value],
             ok |-> TRUE, crashed |-> FALSE]
       ELSE [vec |-> vec, ok |-> FALSE, crashed |-> FALSE]
  ELSE UintVector_add_after(vec, value, vec.last)

\* UintVector::add in general.  After a failed add the four bytes below
\* offset_ hold no value, and below the start of the buffer the read itself
\* is undefined.
UintVector_add_outcomes(vec, value) ==
  IF vec.cut = 0
  THEN {UintVector_add(vec, value)}
  ELSE IF UintVector_empty(vec)
  THEN {IF value <= N4_MAX_UINT
        THEN [vec |-> [deltas |-> <<value>>, last |-> value, cut |-> 0],
              ok |-> TRUE, crashed |-> FALSE]
        ELSE [vec |-> vec, ok |-> FALSE, crashed |-> FALSE]}
  ELSE {UintVector_add_after(vec, value, g) : g \in GarbageValues}
         \cup (IF UintVector_wild([vec EXCEPT !.cut = @ + 4])
               THEN {[vec |-> vec, ok |-> FALSE, crashed |-> TRUE]}
               ELSE {})

(* -------------------------------- Block ------------------------------- *)
\* A block is its entries in order; an entry is a value and its deleted bit.
NoBlock == [has_data |-> FALSE, entries |-> <<>>]
FreshBlock == [has_data |-> TRUE, entries |-> <<>>]

RECURSIVE UsedBytes(_)
UsedBytes(entries) ==
  IF entries = <<>> THEN 0
  ELSE HeaderSize + SizeOf(Head(entries).val) + UsedBytes(Tail(entries))

Block_max_value_size == BlockSize - HeaderSize

Block_Fits(block, v) ==
  UsedBytes(block.entries) + HeaderSize + SizeOf(v) <= BlockSize

Block_TryAdd(block, v) ==
  [block EXCEPT !.entries = Append(@, [val |-> v, deleted |-> FALSE])]

(* -------------------------------- Store ------------------------------- *)
Store_append(st, block) == [store |-> Append(st, block.entries), id |-> Len(st)]
Store_read(st, id) == st[id + 1]

(* --------------------------------- List ------------------------------- *)
NoMutex == [exists |-> FALSE, shared |-> 0, exclusive |-> FALSE]
NewMutex == [exists |-> TRUE, shared |-> 0, exclusive |-> FALSE]

EmptyHead == [num_values_total |-> 0, num_values_deleted |-> 0,
              block_ids |-> EmptyVector]

NewList(head) == [head |-> head, block_ |-> NoBlock, mutex_ |-> NoMutex,
                  mutex_use_count_ |-> 0]

RECURSIVE ReadBlocks(_, _)
ReadBlocks(st, ids) ==
  IF ids = <<>> THEN <<>>
  ELSE Store_read(st, Head(ids)) \o ReadBlocks(st, Tail(ids))

\* Every entry of the list in list order: the committed blocks, read from
\* the store by the ids of the head, then the in-memory tail block.
AllEntries(list, st) ==
  ReadBlocks(st, UintVector_unpack(list.head.block_ids)) \o list.block_.entries

IsValid(e) == ~e.deleted

RECURSIVE ValuesOf(_)
ValuesOf(entries) ==
  IF entries = <<>> THEN <<>> ELSE <<Head(entries).val>> \o ValuesOf(Tail(entries))

\* What an iterator over the list yields: the values not marked as deleted.
Iterate(list, st) == ValuesOf(SelectSeq(AllEntries(list, st), IsValid))

List_size(list) == list.head.num_values_total - list.head.num_values_deleted
List_empty(list) == List_size(list) = 0

\* Faulty variant of List::Add: a full tail block is committed to the store
\* but its id is not recorded in the head.
List_Add_losing_commit(list, st, v) ==
  LET block1 == IF list.block_.has_data THEN list.block_ ELSE FreshBlock
  IN IF SizeOf(v) > Block_max_value_size
     THEN [list |-> [list EXCEPT !.block_ = block1], store |-> st, failed |-> TRUE]
     ELSE IF Block_Fits(block1, v)
     THEN [list |-> [list EXCEPT !.block_ = Block_TryAdd(block1, v),
                                 !.head.num_values_total = @ + 1],
           store |-> st, failed |-> FALSE]
     ELSE [list |-> [list EXCEPT !.block_ = Block_TryAdd(FreshBlock, v),
                                 !.head.num_values_total = @ + 1],
           store |-> Store_append(st, block1).store, failed |-> FALSE]

\* Faulty variant of List::Add: num_values_total is not incremented.
List_Add_uncounted(list, st, v) ==
  LET block1 == IF list.block_.has_data THEN list.block_ ELSE FreshBlock
  IN IF SizeOf(v) > Block_max_value_size
     THEN [list |-> [list EXCEPT !.block_ = block1], store |-> st, failed |-> TRUE]
     ELSE IF Block_Fits(block1, v)
     THEN [list |-> [list EXCEPT !.block_ = Block_TryAdd(block1, v)],
           store |-> st, failed |-> FALSE]
     ELSE LET committed == Store_append(st, block1)
          IN [list |-> [list EXCEPT
                          !.head.block_ids = UintVector_add(@, committed.id).vec,
                          !.block_ = Block_TryAdd(FreshBlock, v)],
              store |-> committed.store, failed |-> FALSE]

\* Faulty variant of List::Add: a value of any size is taken.
List_Add_unchecked(list, st, v) ==
  LET block1 == IF list.block_.has_data THEN list.block_ ELSE FreshBlock
  IN IF Block_Fits(block1, v)
     THEN [list |-> [list EXCEPT !.block_ = Block_TryAdd(block1, v),
                                 !.head.num_values_total = @ + 1],
           store |-> st, failed |-> FALSE]
     ELSE LET committed == Store_append(st, block1)
          IN [list |-> [list EXCEPT
                          !.head.block_ids = UintVector_add(@, committed.id).vec,
                          !.block_ = Block_TryAdd(FreshBlock, v),
                          !.head.num_values_total = @ + 1],
              store |-> committed.store, failed |-> FALSE]

\* List::Add: returns the list, the store and whether the value was rejected.
List_Add(list, st, v) ==
  LET block1 == IF list.block_.has_data THEN list.block_ ELSE FreshBlock
  IN IF SizeOf(v) > Block_max_value_size
     THEN [list |-> [list EXCEPT !.block_ = block1], store |-> st, failed |-> TRUE]
     ELSE IF Block_Fits(block1, v)
     THEN [list |-> [list EXCEPT !.block_ = Block_TryAdd(block1, v),
                                 !.head.num_values_total = @ + 1],
           store |-> st, failed |-> FALSE]
     ELSE LET committed == Store_append(st, block1)
          IN [list |-> [list EXCEPT
                          !.head.block_ids = UintVector_add(@, committed.id).vec,
                          !.block_ = Block_TryAdd(FreshBlock, v),
                          !.head.num_values_total = @ + 1],
              store |-> committed.store, failed |-> FALSE]

\* Faulty variant of List::Flush: the id is recorded, the block is not stored.
List_Flush_without_commit(list, st) ==
  IF list.block_.has_data
  THEN [list |-> [list EXCEPT
                    !.head.block_ids = UintVector_add(@, Len(st)).vec,
                    !.block_ = NoBlock],
        store |-> st]
  ELSE [list |-> list, store |-> st]

\* Faulty variant of List::Flush: the tail block is committed and kept.
List_Flush_keeping_tail(list, st) ==
  IF list.block_.has_data
  THEN LET committed == Store_append(st, list.block_)
       IN [list |-> [list EXCEPT
                       !.head.block_ids = UintVector_add(@, committed.id).vec],
           store |-> committed.store]
  ELSE [list |-> list, store |-> st]

\* Faulty variant of List::Flush: the tail block is dropped, not committed.
List_Flush_dropping_tail(list, st) ==
  [list |-> [list EXCEPT !.block_ = NoBlock], store |-> st]

\* List::Flush
List_Flush(list, st) ==
  IF list.block_.has_data
  THEN LET committed == Store_append(st, list.block_)
       IN [list |-> [list EXCEPT
                       !.head.block_ids = UintVector_add(@, committed.id).vec,
                       !.block_ = NoBlock],
           store |-> committed.store]
  ELSE [list |-> list, store |-> st]

\* Faulty variant of List::CreateMutexUnlocked: a mutex is created even when
\* the list already has one.
List_CreateMutexUnlocked_always(list) == [list EXCEPT !.mutex_ = NewMutex]

\* List::CreateMutexUnlocked
List_CreateMutexUnlocked(list) ==
  IF ~list.mutex_.exists THEN [list EXCEPT !.mutex_ = NewMutex] ELSE list

\* List::DeleteMutexUnlocked
List_DeleteMutexUnlocked(list) == [list EXCEPT !.mutex_ = NoMutex]

\* The lock_guard section of List::LockShared and List::LockUnique.
List_LockEnter(list) ==
  [List_CreateMutexUnlocked(list) EXCEPT !.mutex_use_count_ = @ + 1]

\* Faulty variant of exclusive locking: shared owners are not waited for.
Mutex_can_lock_ignoring_readers(m) == m.exists /\ ~m.exclusive

\* boost::shared_mutex: shared ownership can be obtained while no thread
\* owns the mutex exclusively, exclusive ownership while no thread owns it.
Mutex_can_lock_shared(m) == m.exists /\ ~m.exclusive
Mutex_can_lock(m) == m.exists /\ ~m.exclusive /\ m.shared = 0

List_locked(list) == list.mutex_use_count_ # 0

\* Faulty variant of List::TryLockShared: it asks for the mutex exclusively.
List_TryLockShared_exclusive(list) ==
  LET l1 == List_CreateMutexUnlocked(list)
  IN IF Mutex_can_lock(l1.mutex_)
     THEN [list |-> [l1 EXCEPT !.mutex_.shared = @ + 1,
                               !.mutex_use_count_ = @ + 1],
           locked |-> TRUE]
     ELSE [list |-> l1, locked |-> FALSE]

\* List::TryLockShared: the list afterwards and whether it got the lock.
List_TryLockShared(list) ==
  LET l1 == List_CreateMutexUnlocked(list)
  IN IF Mutex_can_lock_shared(l1.mutex_)
     THEN [list |-> [l1 EXCEPT !.mutex_.shared = @ + 1,
                               !.mutex_use_count_ = @ + 1],
           locked |-> TRUE]
     ELSE [list |-> l1, locked |-> FALSE]

\* List::TryLockUnique: the list afterwards and whether it got the lock.
List_TryLockUnique(list) ==
  LET l1 == List_CreateMutexUnlocked(list)
  IN IF Mutex_can_lock(l1.mutex_)
     THEN [list |-> [l1 EXCEPT !.mutex_.exclusive = TRUE,
                               !.mutex_use_count_ = @ + 1],
           locked |-> TRUE]
     ELSE [list |-> l1, locked |-> FALSE]

\* Faulty variant of List::UnlockShared: the mutex is deleted at every unlock.
List_UnlockShared_deleting(list) ==
  List_DeleteMutexUnlocked([list EXCEPT !.mutex_.shared = @ - 1,
                                        !.mutex_use_count_ = @ - 1])

\* List::UnlockShared, as a change of the list.
List_UnlockShared(list) ==
  LET l1 == [list EXCEPT !.mutex_.shared = @ - 1, !.mutex_use_count_ = @ - 1]
  IN IF l1.mutex_use_count_ = 0 THEN List_DeleteMutexUnlocked(l1) ELSE l1

\* List::UnlockUnique, as a change of the list.
List_UnlockUnique(list) ==
  LET l1 == [list EXCEPT !.mutex_.exclusive = FALSE, !.mutex_use_count_ = @ - 1]
  IN IF l1.mutex_use_count_ = 0 THEN List_DeleteMutexUnlocked(l1) ELSE l1

(* ------------------------- marking values deleted --------------------- *)
\* Faulty variant of Iter<false>::Delete: the deleted bit is not set.
Iter_Delete_unmarked(e) == e

\* List::Iter<false>::Delete on one entry.
Iter_Delete(e) == [e EXCEPT !.deleted = TRUE]

RECURSIVE LenBlocks(_, _, _)
LenBlocks(st, ids, j) ==
  IF j = 0 THEN 0 ELSE Len(Store_read(st, ids[j])) + LenBlocks(st, ids, j - 1)

MarkEntries(entries, base, S) ==
  [e \in 1..Len(entries) |->
     IF base + e \in S THEN Iter_Delete(entries[e]) ELSE entries[e]]

\* The list and the store after the entries at the positions S (counted over
\* AllEntries) were deleted through a mutable iterator: a changed committed
\* block is written back to the store, the tail block is changed in place.
MarkDeleted(list, st, S) ==
  LET ids == UintVector_unpack(list.head.block_ids)
      n == Len(ids)
  IN [list |-> [list EXCEPT
                  !.head.num_values_deleted = @ + Cardinality(S),
                  !.block_.entries = MarkEntries(@, LenBlocks(st, ids, n), S)],
      store |-> [i \in 1..Len(st) |->
                   IF \E j \in 1..n : ids[j] = i - 1
                   THEN LET j == CHOOSE j \in 1..n : ids[j] = i - 1
                        IN MarkEntries(st[i], LenBlocks(st, ids, j - 1), S)
                   ELSE st[i]]]

SetMin(S) == CHOOSE x \in S : \A y \in S : x <= y

\* Faulty variant of the loops of Shard::remove: the first loop does not
\* stop at its first match.
Targets_without_break(entries, accepted, apply_to_all) ==
  {i \in 1..Len(entries) : IsValid(entries[i]) /\ entries[i].val \in accepted}

\* The positions the loops of Shard::remove and Shard::replace act on: the
\* first valid entry the callable accepts and, with apply_to_all, every later
\* one.  accepted is the set of values the callable accepts.
Targets(entries, accepted, apply_to_all) ==
  LET M == {i \in 1..Len(entries) :
              IsValid(entries[i]) /\ entries[i].val \in accepted}
  IN IF M = {} THEN {}
     ELSE {SetMin(M)} \cup (IF apply_to_all THEN {i \in M : i > SetMin(M)} ELSE {})

\* Shard::remove on a list the thread holds uniquely.
Shard_remove_list(list, st, value, apply_to_all) ==
  LET T == Targets(AllEntries(list, st), {value}, apply_to_all)
      marked == MarkDeleted(list, st, T)
  IN [list |-> marked.list, store |-> marked.store, num_deleted |-> Cardinality(T)]

\* List::Iter<false>::UpdateCurrentBlock: the block the iterator has read
\* from the store is written to the store again; the tail block is in
\* memory and was changed in place.
Iter_UpdateCurrentBlock(st, ids, j, requested_block_) ==
  IF j <= Len(ids) THEN [st EXCEPT ![ids[j] + 1] = requested_block_] ELSE st

\* Faulty variant of List::Iter<false>::Advance: a changed block is not
\* written to the store again.
Iter_Advance_without_update(st, ids, j, requested_block_, block_has_changed) == st

\* List::Iter<false>::Advance when the iterator of the block has no value
\* left: a changed block is updated before the next block is requested.
Iter_Advance(st, ids, j, requested_block_, block_has_changed) ==
  IF block_has_changed THEN Iter_UpdateCurrentBlock(st, ids, j, requested_block_)
  ELSE st

NoPending == [some |-> FALSE, j |-> 0, block |-> <<>>]

\* The loops of Shard::remove from block j on, with the iterator calls of
\* List::Iter<false>.  found tells that the first loop has had its match.
\* The result holds the store, the tail block, the count of deleted values
\* and, when the loops ended inside a changed block, that block, which the
\* iterator still has to write.
RECURSIVE Shard_remove_loops(_, _, _, _, _, _, _, _)
Shard_remove_loops(ids, st, tail, j, found, num, value, apply_to_all) ==
  IF j > Len(ids) + 1
  THEN [store |-> st, tail |-> tail, num |-> num, pending |-> NoPending]
  ELSE LET E == IF j <= Len(ids) THEN Store_read(st, ids[j]) ELSE tail
           M == {e \in 1..Len(E) : IsValid(E[e]) /\ E[e].val = value}
           D == IF M = {} \/ found \/ apply_to_all THEN M ELSE {SetMin(M)}
           E2 == [e \in 1..Len(E) |-> IF e \in D THEN Iter_Delete(E[e]) ELSE E[e]]
           tail2 == IF j <= Len(ids) THEN tail ELSE E2
           breaks == ~found /\ ~apply_to_all /\ M # {}
       IN IF breaks /\ \E e \in (SetMin(M) + 1)..Len(E) : IsValid(E[e])
          THEN [store |-> st, tail |-> tail2, num |-> num + 1,
                pending |-> IF j <= Len(ids)
                            THEN [some |-> TRUE, j |-> j, block |-> E2]
                            ELSE NoPending]
          ELSE IF breaks
          THEN [store |-> Iter_Advance(st, ids, j, E2, TRUE), tail |-> tail2,
                num |-> num + 1, pending |-> NoPending]
          ELSE Shard_remove_loops(ids, Iter_Advance(st, ids, j, E2, D # {}), tail2,
                                  j + 1, found \/ M # {}, num + Cardinality(D),
                                  value, apply_to_all)

\* The end of a mutable iterator: a changed block it still holds is written
\* to the store.
Iter_end(st, ids, pending) ==
  IF pending.some THEN Iter_UpdateCurrentBlock(st, ids, pending.j, pending.block)
  ELSE st

\* Shard::remove on a list the thread holds uniquely, by the steps of its
\* iterator.
Shard_remove_steps(list, st, value, apply_to_all) ==
  LET ids == UintVector_unpack(list.head.block_ids)
      w == Shard_remove_loops(ids, st, list.block_.entries, 1, FALSE, 0, value,
                              apply_to_all)
  IN [list |-> [list EXCEPT !.head.num_values_deleted = @ + w.num,
                            !.block_.entries = w.tail],
      store |-> Iter_end(w.store, ids, w.pending),
      num_deleted |-> w.num,
      midblock |-> w.pending.some]

\* List::clear: every value of the list is marked as deleted.
List_clear(list, st) ==
  LET entries == AllEntries(list, st)
  IN MarkDeleted(list, st, {i \in 1..Len(entries) : IsValid(entries[i])})

\* The functions replace is called with: replace one value by another
\* (replaceAllEqual), or map every small value to the next one.  0 stands
\* for the empty string, which means "do not replace".
ReplaceEqual(old, new) == [v \in SmallValues |-> IF v = old THEN new ELSE 0]
Rotate == [v \in SmallValues |-> (v % NumValues) + 1]
ReplaceFns ==
  {ReplaceEqual(old, new) : old \in SmallValues, new \in Values} \cup {Rotate}
NoFn == [v \in SmallValues |-> 0]
Accepted(fn) == {v \in SmallValues : fn[v] # 0}

RECURSIVE SortedSeq(_)
SortedSeq(S) ==
  IF S = {} THEN <<>> ELSE <<SetMin(S)>> \o SortedSeq(S \ {SetMin(S)})

\* The add loop at the end of Shard::replace; it ends at the first value the
\* list rejects.
RECURSIVE AddAll(_, _, _)
AddAll(list, st, vals) ==
  IF vals = <<>> THEN [list |-> list, store |-> st, failed |-> FALSE, added |-> <<>>]
  ELSE LET r == List_Add(list, st, Head(vals))
       IN IF r.failed THEN [list |-> r.list, store |-> r.store, failed |-> TRUE,
                            added |-> <<>>]
          ELSE LET rest == AddAll(r.list, r.store, Tail(vals))
               IN [rest EXCEPT !.added = <<Head(vals)>> \o @]

\* Shard::replace on a list the thread holds uniquely.
Shard_replace_list(list, st, fn, apply_to_all) ==
  LET entries == AllEntries(list, st)
      T == Targets(entries, Accepted(fn), apply_to_all)
      marked == MarkDeleted(list, st, T)
      order == SortedSeq(T)
      updated_values == [i \in 1..Len(order) |-> fn[entries[order[i]].val]]
      r == AddAll(marked.list, marked.store, updated_values)
  IN [list |-> r.list, store |-> r.store, failed |-> r.failed,
      targets |-> T, added |-> r.added]

(* ------------------------------ histories ----------------------------- *)
HistOf(entries) == [i \in 1..Len(entries) |->
                      [val |-> entries[i].val, removed |-> entries[i].deleted]]
HistAppend(h, vals) == h \o [i \in 1..Len(vals) |-> [val |-> vals[i], removed |-> FALSE]]
HistRemove(h, S) == [i \in 1..Len(h) |->
                       IF i \in S THEN [h[i] EXCEPT !.removed = TRUE] ELSE h[i]]
HistKept(e) == ~e.removed
HistValues(h) == [i \in 1..Len(h) |-> h[i].val]

\* The appended values a remove or replace acts on, told from the history
\* alone: the first one not yet removed that the callable accepts and, with
\* apply_to_all, every later such one.
HistTargets(h, accepted, apply_to_all) ==
  LET M == {i \in 1..Len(h) : ~h[i].removed /\ h[i].val \in accepted}
  IN IF apply_to_all \/ M = {} THEN M ELSE {CHOOSE i \in M : \A j \in M : i <= j}

\* What get(key) lets a caller read: nothing for an absent key.
Readable(k) == IF map_[k] = NoList THEN <<>> ELSE Iterate(map_[k], store)

(* ------------------------------- threads ------------------------------ *)
IdleArg == [op |-> "none", key |-> 0, val |-> 0, fn |-> NoFn, all |-> FALSE]

\* What a call returns: whether the handle refers to a list (hasList), the
\* boolean of contains, the count of remove and replace, and the values an
\* iterator yields.  NoResult is the empty handle with its empty results.
NoResult == [hasList |-> FALSE, truth |-> FALSE, count |-> 0, values |-> <<>>,
             locked |-> {}]

Init ==
  /\ isOpen = TRUE
  /\ map_ = [k \in Keys |-> NoList]
  /\ store = <<>>
  /\ keysFile = {}
  /\ tableReaders = {}
  /\ pc = [t \in Threads |-> "idle"]
  /\ arg = [t \in Threads |-> IdleArg]
  /\ held = [t \in Threads |-> "none"]
  /\ todo = [t \in Threads |-> {}]
  /\ err = [t \in Threads |-> FALSE]
  /\ nops = 0
  /\ ret = [t \in Threads |-> NoResult]
  /\ hist = [k \in Keys |-> <<>>]
  /\ lockOrder = [k \in Keys |-> <<>>]
  /\ visits = [t \in Threads |-> <<>>]
  /\ calls = [t \in Threads |-> <<>>]
  /\ preClose = [k \in Keys |-> <<>>]
  /\ skipped = {}
  /\ iter = [t \in Threads |-> NoIter]
  /\ nested = [t \in Threads |-> NoNested]
  /\ tableWriters = {}
  /\ output = NoOutput
  /\ lock_ = 0
  /\ maps = [h \in Handles |-> "closed"]
  /\ partitions_ = [i \in Partitions |-> [k \in MapKeys |-> <<>>]]
  /\ expected = [k \in MapKeys |-> <<>>]
  /\ routed = NoRoute
  /\ got = NoGot
  /\ vector = EmptyVector
  /\ vecCall = NoCall
  /\ vecBefore = [failed |-> FALSE, values |-> <<>>]
  /\ disk = [keys |-> KeysFileOf(<<>>), old |-> Missing]
  /\ loaded = [k \in Keys |-> NoEntry]
  /\ closing = NotClosing
  /\ reopened = NotFound
  /\ locks = [k \in Keys |-> NewList(EmptyHead)]
  /\ locker = [t \in Lockers |-> [key |-> 0, pc |-> "idle"]]
  /\ tried = [key |-> 0, op |-> "none", locked |-> FALSE]
  /\ pattern = "NORMAL"
  /\ to_append = [t \in Threads |-> <<>>]
  /\ committing = [list |-> NewList(EmptyHead), next |-> 0, returned |-> <<>>,
                   crashed |-> FALSE, grown |-> 0]
  /\ scanner = [t \in Threads |-> [pc |-> "idle", todo |-> <<>>, ended |-> "never"]]

CanStart(t) == isOpen /\ pc[t] = "idle" /\ nops < MaxOps

\* boost::shared_mutex, the table's mutex_: shared ownership is not given
\* while a thread waits for exclusive ownership, also not to a thread that
\* owns the mutex shared already; exclusive ownership is given while no
\* thread owns the mutex.
SharedMutex_can_lock_shared == tableWriters = {}
SharedMutex_can_lock == tableReaders = {}

Begin(t, a, next) ==
  /\ pc' = [pc EXCEPT ![t] = next]
  /\ arg' = [arg EXCEPT ![t] = a]
  /\ err' = [err EXCEPT ![t] = FALSE]
  /\ visits' = [visits EXCEPT ![t] = <<>>]
  /\ calls' = [calls EXCEPT ![t] = <<>>]
  /\ nops' = nops + 1
  /\ ret' = [ret EXCEPT ![t] = NoResult]

\* Faulty variant of Table::getUniqueOrCreate: the entry of an existing key
\* is replaced by a new list.
Table_getUniqueOrCreate_replacing(t, k, v) ==
  /\ CanStart(t)
  /\ SharedMutex_can_lock
  /\ map_' = [map_ EXCEPT ![k] = NewList(EmptyHead)]
  /\ Begin(t, [IdleArg EXCEPT !.op = "put", !.key = k, !.val = v], "lock_unique")
  /\ UNCHANGED <<mapvars, vecvars, detailvars, output, nested, tableWriters, iter, isOpen, store, keysFile, tableReaders, held, todo, hist,
                 lockOrder, preClose, skipped>>

\* Faulty variant of Table::getUniqueOrCreate: the table lock is not taken.
Table_getUniqueOrCreate_unlocked(t, k, v) ==
  /\ CanStart(t)
  /\ map_' = IF map_[k] = NoList THEN [map_ EXCEPT ![k] = NewList(EmptyHead)]
             ELSE map_
  /\ Begin(t, [IdleArg EXCEPT !.op = "put", !.key = k, !.val = v], "lock_unique")
  /\ UNCHANGED <<mapvars, vecvars, detailvars, output, nested, tableWriters, iter, isOpen, store, keysFile, tableReaders, held, todo, hist,
                 lockOrder, preClose, skipped>>

\* Table::getUniqueOrCreate, up to the end of its lock_guard block, called
\* by Shard::put.
Table_getUniqueOrCreate(t, k, v) ==
  /\ CanStart(t)
  /\ SharedMutex_can_lock
  /\ map_' = IF map_[k] = NoList THEN [map_ EXCEPT ![k] = NewList(EmptyHead)]
             ELSE map_
  /\ Begin(t, [IdleArg EXCEPT !.op = "put", !.key = k, !.val = v], "lock_unique")
  /\ UNCHANGED <<mapvars, vecvars, detailvars, output, nested, tableWriters, iter, isOpen, store, keysFile, tableReaders, held, todo, hist,
                 lockOrder, preClose, skipped>>

\* Faulty variant of Table::getShared: a list is made for an absent key.
Table_getShared_creating(t, a) ==
  /\ CanStart(t)
  /\ SharedMutex_can_lock_shared
  /\ map_' = IF map_[a.key] = NoList THEN [map_ EXCEPT ![a.key] = NewList(EmptyHead)]
             ELSE map_
  /\ Begin(t, a, "lock_shared")
  /\ UNCHANGED <<mapvars, vecvars, detailvars, output, nested, tableWriters, iter, isOpen, store, keysFile, tableReaders, held, todo, hist,
                 lockOrder, preClose, skipped>>

\* Table::getShared, up to the end of its shared_lock block, called by
\* Shard::get and Shard::contains: an absent key gives an empty handle and
\* the call is over.
Table_getShared(t, a) ==
  /\ CanStart(t)
  /\ SharedMutex_can_lock_shared
  /\ Begin(t, a, IF map_[a.key] = NoList THEN "idle" ELSE "lock_shared")
  /\ UNCHANGED <<mapvars, vecvars, detailvars, output, nested, tableWriters, iter, isOpen, map_, store, keysFile, tableReaders, held, todo, hist,
                 lockOrder, preClose, skipped>>

\* Table::getUnique, up to the end of its shared_lock block, called by
\* Shard::getMutable for Shard::remove and Shard::replace: with an absent key
\* the iterator has no value and the call returns 0.
Table_getUnique(t, a) ==
  /\ CanStart(t)
  /\ SharedMutex_can_lock_shared
  /\ Begin(t, a, IF map_[a.key] = NoList THEN "idle" ELSE "lock_unique")
  /\ UNCHANGED <<mapvars, vecvars, detailvars, output, nested, tableWriters, iter, isOpen, map_, store, keysFile, tableReaders, held, todo, hist,
                 lockOrder, preClose, skipped>>

Shard_put(t) == \E k \in Keys, v \in Values : Table_getUniqueOrCreate(t, k, v)

Shard_get(t) ==
  \E k \in Keys : Table_getShared(t, [IdleArg EXCEPT !.op = "get", !.key = k])

Shard_contains(t) ==
  \E k \in Keys : Table_getShared(t, [IdleArg EXCEPT !.op = "contains", !.key = k])

\* Shard::remove(key): the whole list of the key.
Shard_remove_key(t) ==
  \E k \in Keys : Table_getUnique(t, [IdleArg EXCEPT !.op = "removeKey", !.key = k])

Shard_remove(t) ==
  \E k \in Keys, v \in SmallValues, all \in BOOLEAN :
    Table_getUnique(t, [IdleArg EXCEPT !.op = "remove", !.key = k, !.val = v,
                                       !.all = all])

Shard_replace(t) ==
  \E k \in Keys, fn \in ReplaceFns, all \in BOOLEAN :
    Table_getUnique(t, [IdleArg EXCEPT !.op = "replace", !.key = k, !.fn = fn,
                                       !.all = all])

\* List::LockShared, its lock_guard block.
List_LockShared_enter(t) ==
  /\ pc[t] = "lock_shared"
  /\ map_' = [map_ EXCEPT ![arg[t].key] = List_LockEnter(@)]
  /\ pc' = [pc EXCEPT ![t] = "wait_shared"]
  /\ UNCHANGED <<mapvars, vecvars, detailvars, output, nested, tableWriters, iter, ret, isOpen, store, keysFile, tableReaders, arg, held, todo, err,
                 nops, hist, lockOrder, visits, calls, preClose, skipped>>

\* Faulty variant of List::LockShared: the mutex is locked exclusively.
List_LockShared_wait_exclusive(t) ==
  /\ pc[t] = "wait_shared"
  /\ Mutex_can_lock(map_[arg[t].key].mutex_)
  /\ map_' = [map_ EXCEPT ![arg[t].key].mutex_.exclusive = TRUE]
  /\ held' = [held EXCEPT ![t] = "shared"]
  /\ pc' = [pc EXCEPT ![t] = IF arg[t].op = "get" THEN "reading" ELSE "body"]
  /\ ret' = [ret EXCEPT ![t] =
               IF arg[t].op = "get"
               THEN [NoResult EXCEPT !.hasList = TRUE,
                                     !.values = Iterate(map_[arg[t].key], store)]
               ELSE @]
  /\ UNCHANGED <<mapvars, vecvars, detailvars, output, nested, tableWriters, iter, isOpen, store, keysFile, tableReaders, arg, todo, err, nops,
                 hist, lockOrder, visits, calls, preClose, skipped>>

\* List::LockShared, mutex_->lock_shared(): the thread now holds the handle.
List_LockShared_wait(t) ==
  /\ pc[t] = "wait_shared"
  /\ Mutex_can_lock_shared(map_[arg[t].key].mutex_)
  /\ map_' = [map_ EXCEPT ![arg[t].key].mutex_.shared = @ + 1]
  /\ held' = [held EXCEPT ![t] = "shared"]
  /\ pc' = [pc EXCEPT ![t] = IF arg[t].op = "get" THEN "reading" ELSE "body"]
  /\ ret' = [ret EXCEPT ![t] =
               IF arg[t].op = "get"
               THEN [NoResult EXCEPT !.hasList = TRUE,
                                     !.values = Iterate(map_[arg[t].key], store)]
               ELSE @]
  /\ UNCHANGED <<mapvars, vecvars, detailvars, output, nested, tableWriters, iter, isOpen, store, keysFile, tableReaders, arg, todo, err, nops,
                 hist, lockOrder, visits, calls, preClose, skipped>>

\* List::LockUnique, its lock_guard block.
List_LockUnique_enter(t) ==
  /\ pc[t] = "lock_unique"
  /\ map_' = [map_ EXCEPT ![arg[t].key] = List_LockEnter(@)]
  /\ pc' = [pc EXCEPT ![t] = "wait_unique"]
  /\ UNCHANGED <<mapvars, vecvars, detailvars, output, nested, tableWriters, iter, ret, isOpen, store, keysFile, tableReaders, arg, held, todo, err,
                 nops, hist, lockOrder, visits, calls, preClose, skipped>>

\* Faulty variant of List::LockUnique: one mutex for all lists.
List_LockUnique_wait_global(t) ==
  /\ pc[t] = "wait_unique"
  /\ \A k \in Keys : map_[k] # NoList =>
       ~map_[k].mutex_.exclusive /\ map_[k].mutex_.shared = 0
  /\ map_' = [map_ EXCEPT ![arg[t].key].mutex_.exclusive = TRUE]
  /\ held' = [held EXCEPT ![t] = "unique"]
  /\ pc' = [pc EXCEPT ![t] = "body"]
  /\ lockOrder' = IF arg[t].op = "put"
                  THEN [lockOrder EXCEPT ![arg[t].key] = Append(@, arg[t].val)]
                  ELSE lockOrder
  /\ UNCHANGED <<mapvars, vecvars, detailvars, output, nested, tableWriters, iter, ret, isOpen, store, keysFile, tableReaders, arg, todo, err, nops,
                 hist, visits, calls, preClose, skipped>>

\* List::LockUnique, mutex_->lock(): the thread now holds the handle.
List_LockUnique_wait(t) ==
  /\ pc[t] = "wait_unique"
  /\ Mutex_can_lock(map_[arg[t].key].mutex_)
  /\ map_' = [map_ EXCEPT ![arg[t].key].mutex_.exclusive = TRUE]
  /\ held' = [held EXCEPT ![t] = "unique"]
  /\ pc' = [pc EXCEPT ![t] = "body"]
  /\ lockOrder' = IF arg[t].op = "put"
                  THEN [lockOrder EXCEPT ![arg[t].key] = Append(@, arg[t].val)]
                  ELSE lockOrder
  /\ UNCHANGED <<mapvars, vecvars, detailvars, output, nested, tableWriters, iter, ret, isOpen, store, keysFile, tableReaders, arg, todo, err, nops,
                 hist, visits, calls, preClose, skipped>>

\* The end of a call on one key returns; a table scan goes on.
AfterUnlock(t) == IF arg[t].op \in {"forEachKey", "flush"} THEN "scan" ELSE "idle"

\* List::UnlockShared: the end of a SharedListLock or of an iterator.
List_UnlockShared_call(t) ==
  /\ pc[t] \in {"reading", "unlock"}
  /\ held[t] = "shared"
  /\ map_' = [map_ EXCEPT ![arg[t].key] = List_UnlockShared(@)]
  /\ held' = [held EXCEPT ![t] = "none"]
  /\ pc' = [pc EXCEPT ![t] = AfterUnlock(t)]
  /\ iter' = [iter EXCEPT ![t] = NoIter]
  /\ UNCHANGED <<mapvars, vecvars, detailvars, output, nested, tableWriters, ret, isOpen, store, keysFile, tableReaders, arg, todo, err, nops,
                 hist, lockOrder, visits, calls, preClose, skipped>>

\* List::UnlockUnique: the end of a UniqueListLock.
List_UnlockUnique_call(t) ==
  /\ pc[t] = "unlock"
  /\ held[t] = "unique"
  /\ map_' = [map_ EXCEPT ![arg[t].key] = List_UnlockUnique(@)]
  /\ held' = [held EXCEPT ![t] = "none"]
  /\ pc' = [pc EXCEPT ![t] = AfterUnlock(t)]
  /\ UNCHANGED <<mapvars, vecvars, detailvars, output, nested, tableWriters, iter, ret, isOpen, store, keysFile, tableReaders, arg, todo, err, nops,
                 hist, lockOrder, visits, calls, preClose, skipped>>

\* Shard::put, the call of List::Add on the handle.
Shard_put_add(t) ==
  /\ pc[t] = "body" /\ arg[t].op = "put"
  /\ LET k == arg[t].key
         r == List_Add(map_[k], store, arg[t].val)
     IN /\ map_' = [map_ EXCEPT ![k] = r.list]
        /\ store' = r.store
        /\ err' = [err EXCEPT ![t] = r.failed]
        /\ hist' = IF r.failed THEN hist
                   ELSE [hist EXCEPT ![k] = HistAppend(@, <<arg[t].val>>)]
        /\ lockOrder' = IF r.failed
                        THEN [lockOrder EXCEPT ![k] = SubSeq(@, 1, Len(@) - 1)]
                        ELSE lockOrder
  /\ pc' = [pc EXCEPT ![t] = "unlock"]
  /\ UNCHANGED <<mapvars, vecvars, detailvars, output, nested, tableWriters, iter, ret, isOpen, keysFile, tableReaders, arg, held, todo, nops, visits,
                 calls, preClose, skipped>>

\* Shard::remove(key, predicate, apply_to_all), its loops over the iterator.
Shard_remove_body(t) ==
  /\ pc[t] = "body" /\ arg[t].op = "remove"
  /\ LET k == arg[t].key
         T == HistTargets(hist[k], {arg[t].val}, arg[t].all)
         r == Shard_remove_list(map_[k], store, arg[t].val, arg[t].all)
     IN /\ map_' = [map_ EXCEPT ![k] = r.list]
        /\ store' = r.store
        /\ hist' = [hist EXCEPT ![k] = HistRemove(@, T)]
        /\ ret' = [ret EXCEPT ![t] = [NoResult EXCEPT !.hasList = TRUE,
                                                     !.count = r.num_deleted]]
  /\ pc' = [pc EXCEPT ![t] = "unlock"]
  /\ UNCHANGED <<mapvars, vecvars, detailvars, output, nested, tableWriters, iter, isOpen, keysFile, tableReaders, arg, held, todo, err, nops,
                 lockOrder, visits, calls, preClose, skipped>>

\* Shard::contains, the test under the SharedListLock.
Shard_contains_body(t) ==
  /\ pc[t] = "body" /\ arg[t].op = "contains"
  /\ ret' = [ret EXCEPT ![t] = [NoResult EXCEPT !.hasList = TRUE,
                                               !.truth = ~List_empty(map_[arg[t].key])]]
  /\ pc' = [pc EXCEPT ![t] = "unlock"]
  /\ UNCHANGED <<mapvars, vecvars, detailvars, output, nested, tableWriters, iter, isOpen, map_, store, keysFile, tableReaders, arg, held, todo,
                 err, nops, hist, lockOrder, visits, calls, preClose, skipped>>

\* A variant of Shard::remove(key) that erases the key from the table.
Shard_remove_key_body_erasing(t) ==
  /\ pc[t] = "body" /\ arg[t].op = "removeKey"
  /\ LET k == arg[t].key
     IN /\ ret' = [ret EXCEPT ![t] = [NoResult EXCEPT !.hasList = TRUE,
                                                     !.count = List_size(map_[k])]]
        /\ map_' = [map_ EXCEPT ![k] = NoList]
        /\ hist' = [hist EXCEPT ![k] = <<>>]
  /\ pc' = [pc EXCEPT ![t] = "idle"]
  /\ held' = [held EXCEPT ![t] = "none"]
  /\ UNCHANGED <<mapvars, vecvars, detailvars, output, nested, tableWriters, iter, isOpen, store, keysFile, tableReaders, arg, todo, err, nops,
                 lockOrder, visits, calls, preClose, skipped>>

\* Shard::remove(key), under the UniqueListLock: size() and clear().
Shard_remove_key_body(t) ==
  /\ pc[t] = "body" /\ arg[t].op = "removeKey"
  /\ LET k == arg[t].key
         r == List_clear(map_[k], store)
     IN /\ ret' = [ret EXCEPT ![t] = [NoResult EXCEPT !.hasList = TRUE,
                                                     !.count = List_size(map_[k])]]
        /\ map_' = [map_ EXCEPT ![k] = r.list]
        /\ store' = r.store
        /\ hist' = [hist EXCEPT ![k] = HistRemove(@, 1..Len(@))]
  /\ pc' = [pc EXCEPT ![t] = "unlock"]
  /\ UNCHANGED <<mapvars, vecvars, detailvars, output, nested, tableWriters, iter, isOpen, keysFile, tableReaders, arg, held, todo, err, nops,
                 lockOrder, visits, calls, preClose, skipped>>

\* Shard::replace(key, function, apply_to_all), its loops and its adds.
Shard_replace_body(t) ==
  /\ pc[t] = "body" /\ arg[t].op = "replace"
  /\ LET k == arg[t].key
         r == Shard_replace_list(map_[k], store, arg[t].fn, arg[t].all)
     IN /\ map_' = [map_ EXCEPT ![k] = r.list]
        /\ store' = r.store
        /\ err' = [err EXCEPT ![t] = r.failed]
        /\ hist' = [hist EXCEPT ![k] = HistAppend(HistRemove(@, HistTargets(@, Accepted(arg[t].fn), arg[t].all)),
                                   r.added)]
        /\ lockOrder' = [lockOrder EXCEPT ![k] = @ \o r.added]
        /\ ret' = [ret EXCEPT ![t] =
                     [NoResult EXCEPT !.hasList = TRUE,
                                      !.count = IF r.failed THEN 0
                                                ELSE Cardinality(r.targets)]]
  /\ pc' = [pc EXCEPT ![t] = "unlock"]
  /\ UNCHANGED <<mapvars, vecvars, detailvars, output, nested, tableWriters, iter, isOpen, keysFile, tableReaders, arg, held, todo, nops, visits,
                 calls, preClose, skipped>>

(* ----------------------------- table scans ---------------------------- *)
PresentKeys == {k \in Keys : map_[k] # NoList}

\* Table::forEachKey and Table::flushAllListsAndWaitIfLocked take the table
\* lock shared and walk map_, whose iteration order is unspecified.
Table_scan_begin(t, op) ==
  /\ CanStart(t)
  /\ SharedMutex_can_lock_shared
  /\ tableReaders' = tableReaders \cup {t}
  /\ todo' = [todo EXCEPT ![t] = PresentKeys]
  /\ Begin(t, [IdleArg EXCEPT !.op = op], "scan")
  /\ UNCHANGED <<mapvars, vecvars, detailvars, output, nested, tableWriters, iter, isOpen, map_, store, keysFile, held, hist, lockOrder,
                 preClose, skipped>>

Table_forEachKey(t) == Table_scan_begin(t, "forEachKey")

Table_flushAllListsAndWaitIfLocked(t) == Table_scan_begin(t, "flush")

\* The head of the range-for loop: the next entry, or the end of the call.
Table_scan_next(t) ==
  /\ pc[t] = "scan"
  /\ IF todo[t] = {}
     THEN /\ tableReaders' = tableReaders \ {t}
          /\ pc' = [pc EXCEPT ![t] = "idle"]
          /\ UNCHANGED <<arg, todo>>
     ELSE \E k \in todo[t] :
            /\ todo' = [todo EXCEPT ![t] = @ \ {k}]
            /\ arg' = [arg EXCEPT ![t].key = k]
            /\ pc' = [pc EXCEPT ![t] = IF arg[t].op = "forEachKey"
                                       THEN "lock_shared" ELSE "lock_unique"]
            /\ UNCHANGED tableReaders
  /\ UNCHANGED <<mapvars, vecvars, detailvars, output, nested, tableWriters, iter, ret, isOpen, map_, store, keysFile, held, err, nops, hist,
                 lockOrder, visits, calls, preClose, skipped>>

\* Faulty variant of the loop body of Table::forEachKey: the procedure is
\* called without the test for an empty list.
Table_forEachKey_visit_unconditional(t) ==
  /\ pc[t] = "body" /\ arg[t].op = "forEachKey"
  /\ LET k == arg[t].key
     IN /\ visits' = [visits EXCEPT ![t] =
                        Append(@, [key |-> k, nonempty |-> Readable(k) # <<>>])]
        /\ calls' = [calls EXCEPT ![t] = Append(@, k)]
  /\ pc' = [pc EXCEPT ![t] = "unlock"]
  /\ UNCHANGED <<mapvars, vecvars, detailvars, output, nested, tableWriters, iter, ret, isOpen, map_, store, keysFile, tableReaders, arg, held, todo,
                 err, nops, hist, lockOrder, preClose, skipped>>

\* Table::forEachKey, the body of its loop under the SharedListLock.  The
\* history notes whether an iteration of the list would yield a value.
Table_forEachKey_visit(t) ==
  /\ pc[t] = "body" /\ arg[t].op = "forEachKey"
  /\ LET k == arg[t].key
     IN /\ visits' = [visits EXCEPT ![t] =
                        Append(@, [key |-> k, nonempty |-> Readable(k) # <<>>])]
        /\ calls' = [calls EXCEPT ![t] = IF ~List_empty(map_[k]) THEN Append(@, k)
                                         ELSE @]
  /\ pc' = [pc EXCEPT ![t] = "unlock"]
  /\ UNCHANGED <<mapvars, vecvars, detailvars, output, nested, tableWriters, iter, ret, isOpen, map_, store, keysFile, tableReaders, arg, held, todo,
                 err, nops, hist, lockOrder, preClose, skipped>>

\* Table::flushAllListsAndWaitIfLocked, list->flush under the unique lock.
Table_flush_list(t) ==
  /\ pc[t] = "body" /\ arg[t].op = "flush"
  /\ LET k == arg[t].key
         r == List_Flush(map_[k], store)
     IN /\ map_' = [map_ EXCEPT ![k] = r.list]
        /\ store' = r.store
  /\ pc' = [pc EXCEPT ![t] = "unlock"]
  /\ UNCHANGED <<mapvars, vecvars, detailvars, output, nested, tableWriters, iter, ret, isOpen, keysFile, tableReaders, arg, held, todo, err, nops,
                 hist, lockOrder, visits, calls, preClose, skipped>>

\* Table::getStats: under the table lock it tries each list's lock shared,
\* reads the list's counters and unlocks it again; a list it cannot lock is
\* counted as locked.  The call returns the number of keys and the lists it
\* found locked.
Table_getStats(t) ==
  /\ CanStart(t)
  /\ SharedMutex_can_lock_shared
  /\ map_' = [k \in Keys |->
                IF map_[k] = NoList THEN NoList
                ELSE LET r == List_TryLockShared(map_[k])
                     IN IF r.locked THEN List_UnlockShared(r.list) ELSE r.list]
  /\ pc' = [pc EXCEPT ![t] = "idle"]
  /\ arg' = [arg EXCEPT ![t] = [IdleArg EXCEPT !.op = "stats"]]
  /\ err' = [err EXCEPT ![t] = FALSE]
  /\ visits' = [visits EXCEPT ![t] = <<>>]
  /\ calls' = [calls EXCEPT ![t] = <<>>]
  /\ nops' = nops + 1
  /\ ret' = [ret EXCEPT ![t] =
               [NoResult EXCEPT !.count = Cardinality(PresentKeys),
                                !.locked = {k \in PresentKeys :
                                              ~List_TryLockShared(map_[k]).locked}]]
  /\ UNCHANGED <<mapvars, vecvars, detailvars, output, nested, tableWriters, iter, isOpen, store, keysFile, tableReaders, held, todo, hist,
                 lockOrder, preClose, skipped>>

(* ---------------------------- close and open -------------------------- *)
\* The loop of Table::close over the keys in the sequence order: a list whose
\* lock cannot be taken is skipped, an empty list is not written, any other
\* list is flushed and its head written to the keys file.
RECURSIVE Table_close_loop(_, _, _)
Table_close_loop(order, st, file) ==
  IF order = <<>> THEN [store |-> st, file |-> file]
  ELSE LET k == Head(order)
           locked == List_TryLockUnique(map_[k])
       IN IF locked.locked /\ ~List_empty(locked.list)
          THEN LET r == List_Flush(locked.list, st)
               IN Table_close_loop(Tail(order), r.store,
                                   file \cup {[key |-> k, head |-> r.list.head]})
          ELSE Table_close_loop(Tail(order), st, file)

Orders(S) == {o \in [1..Cardinality(S) -> S] : \A i, j \in 1..Cardinality(S) :
                                                   i # j => o[i] # o[j]}

\* Table::close, called while no other thread is inside a call on the table
\* (threads may still hold iterators).  An iterator that outlives the close
\* refers to a list that no longer exists.
Table_close ==
  /\ isOpen
  /\ \A t \in Threads : pc[t] \in {"idle", "reading", "crashed"}
  /\ \E order \in Orders(PresentKeys) :
       LET r == Table_close_loop(order, store, {})
       IN /\ store' = r.store
          /\ keysFile' = r.file
  /\ preClose' = [k \in Keys |-> Readable(k)]
  /\ skipped' = {k \in PresentKeys : ~List_TryLockUnique(map_[k]).locked}
  /\ map_' = [k \in Keys |-> NoList]
  /\ isOpen' = FALSE
  /\ pc' = [t \in Threads |-> IF pc[t] = "reading" THEN "dangling" ELSE pc[t]]
  /\ hist' = [k \in Keys |-> <<>>]
  /\ lockOrder' = [k \in Keys |-> <<>>]
  /\ UNCHANGED <<mapvars, vecvars, detailvars, output, nested, tableWriters, iter, ret, tableReaders, arg, held, todo, err, nops, visits, calls>>

\* Table::open on the keys file the last close wrote.
Table_open ==
  /\ ~isOpen
  /\ map_' = [k \in Keys |->
                IF \E e \in keysFile : e.key = k
                THEN NewList((CHOOSE e \in keysFile : e.key = k).head)
                ELSE NoList]
  /\ isOpen' = TRUE
  /\ hist' = [k \in Keys |->
                IF map_'[k] = NoList THEN <<>>
                ELSE HistOf(AllEntries(map_'[k], store))]
  /\ lockOrder' = [k \in Keys |->
                     IF map_'[k] = NoList THEN <<>>
                     ELSE ValuesOf(AllEntries(map_'[k], store))]
  /\ UNCHANGED <<mapvars, vecvars, detailvars, output, nested, tableWriters, iter, ret, store, keysFile, tableReaders, pc, arg, held, todo, err, nops,
                 visits, calls, preClose, skipped>>

\* The end of an iterator whose list a close has destroyed: the unlock acts
\* on freed memory, so the thread either gets away with it or crashes.
Iter_drop_dangling(t) ==
  /\ pc[t] = "dangling"
  /\ \E next \in {"idle", "crashed"} : pc' = [pc EXCEPT ![t] = next]
  /\ held' = [held EXCEPT ![t] = "none"]
  /\ UNCHANGED <<mapvars, vecvars, detailvars, output, nested, tableWriters, iter, ret, isOpen, map_, store, keysFile, tableReaders, arg, todo, err,
                 nops, hist, lockOrder, visits, calls, preClose, skipped>>

(* ------------------------------- the system --------------------------- *)
Start(t) ==
  \/ Shard_put(t)
  \/ Shard_get(t)
  \/ Shard_remove(t)
  \/ Shard_replace(t)
  \/ Shard_contains(t)
  \/ Shard_remove_key(t)
  \/ Table_forEachKey(t)
  \/ Table_flushAllListsAndWaitIfLocked(t)
  \/ Table_getStats(t)

Step(t) ==
  \/ List_LockShared_enter(t)
  \/ List_LockShared_wait(t)
  \/ List_LockUnique_enter(t)
  \/ List_LockUnique_wait(t)
  \/ Shard_put_add(t)
  \/ Shard_remove_body(t)
  \/ Shard_replace_body(t)
  \/ Shard_contains_body(t)
  \/ Shard_remove_key_body(t)
  \/ Table_forEachKey_visit(t)
  \/ Table_flush_list(t)
  \/ Table_scan_next(t)
  \/ List_UnlockShared_call(t)
  \/ List_UnlockUnique_call(t)
  \/ Iter_drop_dangling(t)

Next ==
  \/ \E t \in Threads : Start(t)
  \/ \E t \in Threads : Step(t)
  \/ Table_close
  \/ Table_open

Spec == Init /\ [][Next]_vars

\* The threads calling put and get only.
PutGetStep(t) ==
  \/ List_LockShared_enter(t)
  \/ List_LockShared_wait(t)
  \/ List_LockUnique_enter(t)
  \/ List_LockUnique_wait(t)
  \/ Shard_put_add(t)
  \/ List_UnlockShared_call(t)
  \/ List_UnlockUnique_call(t)

PutGetNext ==
  \/ \E t \in Threads : Shard_put(t)
  \/ \E t \in Threads : Shard_get(t)
  \/ \E t \in Threads : PutGetStep(t)

\* A thread inside a call keeps running, and a caller drops the iterator it
\* holds at some time: each thread's steps are taken when they stay possible.
PutGetFairSpec ==
  Init /\ [][PutGetNext]_vars /\ \A t \in Threads : WF_vars(PutGetStep(t))

(* --------------------------- iterating by steps ----------------------- *)
\* An iterator made under the shared lock: the entries of the list at that
\* time, the position of the last entry it yielded, the count of values it
\* has still to yield, taken from the counters of the head, and the values
\* yielded so far.
Iter_new(t) ==
  /\ pc[t] = "reading" /\ arg[t].op = "get" /\ ~iter[t].active
  /\ iter' = [iter EXCEPT ![t] =
                [active |-> TRUE,
                 entries |-> AllEntries(map_[arg[t].key], store),
                 pos |-> 0,
                 available |-> List_size(map_[arg[t].key]),
                 yielded |-> <<>>]]
  /\ UNCHANGED <<mapvars, vecvars, detailvars, output, nested, tableWriters, isOpen, map_, store, keysFile, tableReaders, pc, arg,
                 held, todo, err, nops, ret, hist, lockOrder, visits, calls, preClose,
                 skipped>>

\* The entries after the position that are not marked as deleted.
Iter_ahead(it) == {i \in (it.pos + 1)..Len(it.entries) : IsValid(it.entries[i])}

\* Iterator::hasNext: a value that is not deleted remains.
Iter_hasNext(it) == Iter_ahead(it) # {}

\* Iterator::available
Iter_available(it) == it.available

\* Iterator::next: moves to the next value that is not deleted and yields it.
Iter_next(t) ==
  /\ pc[t] = "reading" /\ iter[t].active /\ Iter_hasNext(iter[t])
  /\ LET i == SetMin(Iter_ahead(iter[t]))
     IN iter' = [iter EXCEPT ![t].pos = i,
                             ![t].available = @ - 1,
                             ![t].yielded = Append(@, iter[t].entries[i].val)]
  /\ UNCHANGED <<mapvars, vecvars, detailvars, output, nested, tableWriters, isOpen, map_, store, keysFile, tableReaders, pc, arg,
                 held, todo, err, nops, ret, hist, lockOrder, visits, calls, preClose,
                 skipped>>

\* The threads calling put, get and remove, and walking their iterators.
IterStep(t) ==
  \/ List_LockShared_enter(t)
  \/ List_LockShared_wait(t)
  \/ List_LockUnique_enter(t)
  \/ List_LockUnique_wait(t)
  \/ Shard_put_add(t)
  \/ Shard_remove_body(t)
  \/ List_UnlockShared_call(t)
  \/ List_UnlockUnique_call(t)
  \/ Iter_new(t)
  \/ Iter_next(t)

IterNext ==
  \/ \E t \in Threads : Shard_put(t)
  \/ \E t \in Threads : Shard_get(t)
  \/ \E t \in Threads : Shard_remove(t)
  \/ \E t \in Threads : IterStep(t)

IterSpec == Init /\ [][IterNext]_vars

(* ------------------- calls made by a forEachKey procedure ------------- *)
\* Table::getUniqueOrCreate, the start of its lock_guard: the thread asks
\* for the table lock exclusively and waits for it.
Table_getUniqueOrCreate_lock(t) ==
  /\ CanStart(t)
  /\ \E k \in Keys, v \in SmallValues :
       Begin(t, [IdleArg EXCEPT !.op = "put", !.key = k, !.val = v], "table_unique")
  /\ tableWriters' = tableWriters \cup {t}
  /\ UNCHANGED <<mapvars, vecvars, detailvars, output, nested, iter, isOpen, map_, store, keysFile, tableReaders,
                 held, todo, hist, lockOrder, preClose, skipped>>

\* Table::getUniqueOrCreate, its lock_guard block once the lock is given,
\* in a call of Shard::put and in a call a procedure makes.
Table_getUniqueOrCreate_locked(t) ==
  /\ SharedMutex_can_lock
  /\ tableWriters' = tableWriters \ {t}
  /\ \/ /\ pc[t] = "table_unique"
        /\ map_' = IF map_[arg[t].key] = NoList
                   THEN [map_ EXCEPT ![arg[t].key] = NewList(EmptyHead)]
                   ELSE map_
        /\ pc' = [pc EXCEPT ![t] = "lock_unique"]
        /\ UNCHANGED nested
     \/ /\ pc[t] = "procedure" /\ nested[t].pc = "table_unique"
        /\ map_' = IF map_[nested[t].key] = NoList
                   THEN [map_ EXCEPT ![nested[t].key] = NewList(EmptyHead)]
                   ELSE map_
        /\ nested' = [nested EXCEPT ![t].pc = "lock"]
        /\ UNCHANGED pc
  /\ UNCHANGED <<mapvars, vecvars, detailvars, output, iter, ret, isOpen, store, keysFile, tableReaders,
                 arg, held, todo, err, nops, hist, lockOrder, visits, calls, preClose,
                 skipped>>

\* What a procedure may call: get, getMutable and put on any key.
NestedCalls ==
  {[op |-> o, key |-> k, pc |-> "table"] : o \in {"get", "getMutable", "put"},
                                           k \in Keys}

\* Table::forEachKey, procedure(entry.first) for a list that is not empty:
\* the procedure starts a call on the table.
Procedure_call(t) ==
  /\ pc[t] = "body" /\ arg[t].op = "forEachKey"
  /\ ~List_empty(map_[arg[t].key])
  /\ \E c \in NestedCalls : nested' = [nested EXCEPT ![t] = c]
  /\ pc' = [pc EXCEPT ![t] = "procedure"]
  /\ UNCHANGED <<mapvars, vecvars, detailvars, output, tableWriters, iter, ret, isOpen, map_, store, keysFile,
                 tableReaders, arg, held, todo, err, nops, hist, lockOrder, visits,
                 calls, preClose, skipped>>

\* Table::getShared and Table::getUnique inside the procedure: the
\* shared_lock block looks the key up.
Nested_lookup(t) ==
  /\ pc[t] = "procedure"
  /\ nested[t].op \in {"get", "getMutable"} /\ nested[t].pc = "table"
  /\ SharedMutex_can_lock_shared
  /\ nested' = [nested EXCEPT ![t].pc =
                  IF map_[nested[t].key] = NoList THEN "done" ELSE "lock"]
  /\ UNCHANGED <<mapvars, vecvars, detailvars, output, tableWriters, iter, ret, isOpen, map_, store, keysFile,
                 tableReaders, pc, arg, held, todo, err, nops, hist, lockOrder, visits,
                 calls, preClose, skipped>>

\* Table::getUniqueOrCreate inside the procedure: the thread asks for the
\* table lock exclusively.
Nested_getUniqueOrCreate_lock(t) ==
  /\ pc[t] = "procedure"
  /\ nested[t].op = "put" /\ nested[t].pc = "table"
  /\ tableWriters' = tableWriters \cup {t}
  /\ nested' = [nested EXCEPT ![t].pc = "table_unique"]
  /\ UNCHANGED <<mapvars, vecvars, detailvars, output, iter, ret, isOpen, map_, store, keysFile,
                 tableReaders, pc, arg, held, todo, err, nops, hist, lockOrder, visits,
                 calls, preClose, skipped>>

\* List::LockShared and List::LockUnique inside the procedure, the
\* lock_guard block.
Nested_Lock_enter(t) ==
  /\ pc[t] = "procedure" /\ nested[t].pc = "lock"
  /\ map_' = [map_ EXCEPT ![nested[t].key] = List_LockEnter(@)]
  /\ nested' = [nested EXCEPT ![t].pc = "wait"]
  /\ UNCHANGED <<mapvars, vecvars, detailvars, output, tableWriters, iter, ret, isOpen, store, keysFile,
                 tableReaders, pc, arg, held, todo, err, nops, hist, lockOrder, visits,
                 calls, preClose, skipped>>

\* List::LockShared inside the procedure, mutex_->lock_shared().
Nested_LockShared_wait(t) ==
  /\ pc[t] = "procedure" /\ nested[t].op = "get" /\ nested[t].pc = "wait"
  /\ Mutex_can_lock_shared(map_[nested[t].key].mutex_)
  /\ map_' = [map_ EXCEPT ![nested[t].key].mutex_.shared = @ + 1]
  /\ nested' = [nested EXCEPT ![t].pc = "holding"]
  /\ UNCHANGED <<mapvars, vecvars, detailvars, output, tableWriters, iter, ret, isOpen, store, keysFile,
                 tableReaders, pc, arg, held, todo, err, nops, hist, lockOrder, visits,
                 calls, preClose, skipped>>

\* List::LockUnique inside the procedure, mutex_->lock().
Nested_LockUnique_wait(t) ==
  /\ pc[t] = "procedure" /\ nested[t].op \in {"getMutable", "put"}
  /\ nested[t].pc = "wait"
  /\ Mutex_can_lock(map_[nested[t].key].mutex_)
  /\ map_' = [map_ EXCEPT ![nested[t].key].mutex_.exclusive = TRUE]
  /\ nested' = [nested EXCEPT ![t].pc = "holding"]
  /\ UNCHANGED <<mapvars, vecvars, detailvars, output, tableWriters, iter, ret, isOpen, store, keysFile,
                 tableReaders, pc, arg, held, todo, err, nops, hist, lockOrder, visits,
                 calls, preClose, skipped>>

\* The end of the handle the procedure got.
Nested_Unlock(t) ==
  /\ pc[t] = "procedure" /\ nested[t].pc = "holding"
  /\ map_' = [map_ EXCEPT ![nested[t].key] =
                IF nested[t].op = "get" THEN List_UnlockShared(@)
                ELSE List_UnlockUnique(@)]
  /\ nested' = [nested EXCEPT ![t].pc = "done"]
  /\ UNCHANGED <<mapvars, vecvars, detailvars, output, tableWriters, iter, ret, isOpen, store, keysFile,
                 tableReaders, pc, arg, held, todo, err, nops, hist, lockOrder, visits,
                 calls, preClose, skipped>>

\* The procedure returns to the loop of Table::forEachKey.
Procedure_return(t) ==
  /\ pc[t] = "procedure" /\ nested[t].pc = "done"
  /\ nested' = [nested EXCEPT ![t] = NoNested]
  /\ visits' = [visits EXCEPT ![t] = Append(@, [key |-> arg[t].key, nonempty |-> TRUE])]
  /\ calls' = [calls EXCEPT ![t] = Append(@, arg[t].key)]
  /\ pc' = [pc EXCEPT ![t] = "unlock"]
  /\ UNCHANGED <<mapvars, vecvars, detailvars, output, tableWriters, iter, ret, isOpen, map_, store, keysFile,
                 tableReaders, arg, held, todo, err, nops, hist, lockOrder, preClose,
                 skipped>>

\* The threads calling put, get and forEachKey with such procedures.
ProcedureStep(t) ==
  \/ Table_getUniqueOrCreate_locked(t)
  \/ List_LockShared_enter(t)
  \/ List_LockShared_wait(t)
  \/ List_LockUnique_enter(t)
  \/ List_LockUnique_wait(t)
  \/ Shard_put_add(t)
  \/ List_UnlockShared_call(t)
  \/ List_UnlockUnique_call(t)
  \/ Table_scan_next(t)
  \/ Table_forEachKey_visit(t)
  \/ Procedure_call(t)
  \/ Nested_lookup(t)
  \/ Nested_getUniqueOrCreate_lock(t)
  \/ Nested_Lock_enter(t)
  \/ Nested_LockShared_wait(t)
  \/ Nested_LockUnique_wait(t)
  \/ Nested_Unlock(t)
  \/ Procedure_return(t)

ProcedureNext ==
  \/ \E t \in Threads : Table_getUniqueOrCreate_lock(t)
  \/ \E t \in Threads : Shard_get(t)
  \/ \E t \in Threads : Table_forEachKey(t)
  \/ \E t \in Threads : ProcedureStep(t)

ProcedureSpec == Init /\ [][ProcedureNext]_vars

(* ------------------------- getStats by its steps ---------------------- *)
\* Table::getStats, its shared_lock and stats.num_keys = map_.size().
Table_getStats_lock(t) ==
  /\ CanStart(t)
  /\ SharedMutex_can_lock_shared
  /\ tableReaders' = tableReaders \cup {t}
  /\ todo' = [todo EXCEPT ![t] = PresentKeys]
  /\ Begin(t, [IdleArg EXCEPT !.op = "stats"], "stats")
  /\ UNCHANGED <<mapvars, vecvars, detailvars, output, nested, tableWriters, iter, isOpen, map_, store,
                 keysFile, held, hist, lockOrder, preClose, skipped>>

\* Table::getStats, the body of its loop for one entry: tryLockShared, the
\* counters of the list, unlockShared; a list that cannot be locked is
\* counted as locked.
Table_getStats_entry(t) ==
  /\ pc[t] = "stats"
  /\ \E k \in todo[t] :
       LET r == List_TryLockShared(map_[k])
       IN /\ map_' = [map_ EXCEPT ![k] = IF r.locked THEN List_UnlockShared(r.list)
                                         ELSE r.list]
          /\ ret' = [ret EXCEPT ![t].count = @ + 1,
                                ![t].locked = IF r.locked THEN @ ELSE @ \cup {k}]
          /\ todo' = [todo EXCEPT ![t] = @ \ {k}]
  /\ UNCHANGED <<mapvars, vecvars, detailvars, output, nested, tableWriters, iter, isOpen, store, keysFile,
                 tableReaders, pc, arg, held, err, nops, hist, lockOrder, visits,
                 calls, preClose, skipped>>

\* Table::getStats, its return after the loop: the end of the shared_lock.
Table_getStats_return(t) ==
  /\ pc[t] = "stats" /\ todo[t] = {}
  /\ tableReaders' = tableReaders \ {t}
  /\ pc' = [pc EXCEPT ![t] = "idle"]
  /\ UNCHANGED <<mapvars, vecvars, detailvars, output, nested, tableWriters, iter, ret, isOpen, map_, store,
                 keysFile, arg, held, todo, err, nops, hist, lockOrder, visits, calls,
                 preClose, skipped>>

\* The threads calling put, get, remove and getStats.
StatsStep(t) ==
  \/ List_LockShared_enter(t)
  \/ List_LockShared_wait(t)
  \/ List_LockUnique_enter(t)
  \/ List_LockUnique_wait(t)
  \/ Shard_put_add(t)
  \/ Shard_remove_body(t)
  \/ List_UnlockShared_call(t)
  \/ List_UnlockUnique_call(t)
  \/ Table_getStats_entry(t)
  \/ Table_getStats_return(t)

StatsNext ==
  \/ \E t \in Threads : Shard_put(t)
  \/ \E t \in Threads : Shard_get(t)
  \/ \E t \in Threads : Shard_remove(t)
  \/ \E t \in Threads : Table_getStats_lock(t)
  \/ \E t \in Threads : StatsStep(t)

StatsSpec == Init /\ [][StatsNext]_vars

(* ------------------------------- optimize ----------------------------- *)
\* Faulty variant of List::Copy: the values marked as deleted are copied too.
List_Copy_with_deleted(head, from, to) ==
  LET added == AddAll(NewList(EmptyHead), to, ValuesOf(AllEntries(NewList(head), from)))
      flushed == List_Flush(added.list, added.store)
  IN [head |-> flushed.list.head, store |-> flushed.store]

\* List::Copy: the values an iterator over the list of the head yields are
\* added to a new list, which is flushed; the head of the new list is
\* returned.
List_Copy(head, from, to) ==
  LET added == AddAll(NewList(EmptyHead), to, Iterate(NewList(head), from))
      flushed == List_Flush(added.list, added.store)
  IN [head |-> flushed.list.head, store |-> flushed.store]

\* The loop of optimize over the entries of the source table.
RECURSIVE optimize_loop(_, _, _)
optimize_loop(order, to, heads) ==
  IF order = <<>> THEN [written |-> TRUE, heads |-> heads, store |-> to]
  ELSE LET e == CHOOSE e \in keysFile : e.key = Head(order)
           r == List_Copy(e.head, store, to)
       IN optimize_loop(Tail(order), r.store, [heads EXCEPT ![e.key] = r.head])

\* optimize without a comparator, on a map that is not open: every entry of
\* the source table is put, value by value, into a new map.
optimize ==
  /\ ~isOpen
  /\ ~output.written
  /\ \E order \in Orders({e.key : e \in keysFile}) :
       output' = optimize_loop(order, <<>>, [k \in Keys |-> NoList])
  /\ UNCHANGED <<mapvars, vecvars, detailvars, nested, tableWriters, iter, isOpen, map_, store,
                 keysFile, tableReaders, pc, arg, held, todo, err, nops, ret, hist,
                 lockOrder, visits, calls, preClose, skipped>>

\* The threads calling put and remove, the close of the table and optimize.
OptimizeStep(t) ==
  \/ List_LockUnique_enter(t)
  \/ List_LockUnique_wait(t)
  \/ Shard_put_add(t)
  \/ Shard_remove_body(t)
  \/ List_UnlockUnique_call(t)

OptimizeNext ==
  \/ \E t \in Threads : Shard_put(t)
  \/ \E t \in Threads : Shard_remove(t)
  \/ \E t \in Threads : OptimizeStep(t)
  \/ Table_close
  \/ optimize

OptimizeSpec == Init /\ [][OptimizeNext]_vars

(* ------------------------------- the map ------------------------------ *)
\* The 32-bit FNV-1a hash, kept as two 16-bit limbs so that the products of
\* the multiplication modulo 2^32 stay small.
Limb == 2 ^ 16
FnvOffsetBasis == [hi |-> 33052, lo |-> 40389]   \* 0x811C9DC5
FnvPrime == [hi |-> 256, lo |-> 403]             \* 0x01000193

RECURSIVE BitXor(_, _)
BitXor(a, b) ==
  IF a = 0 THEN b
  ELSE IF b = 0 THEN a
  ELSE ((a + b) % 2) + 2 * BitXor(a \div 2, b \div 2)

\* h * FnvPrime modulo 2^32.
Fnv1aMul(h) ==
  LET low == h.lo * FnvPrime.lo
      cross == h.hi * FnvPrime.lo + h.lo * FnvPrime.hi + (low \div Limb)
  IN [hi |-> cross % Limb, lo |-> low % Limb]

RECURSIVE Fnv1aFold(_, _)
Fnv1aFold(h, bytes) ==
  IF bytes = <<>> THEN h
  ELSE Fnv1aFold(
         Fnv1aMul([h EXCEPT !.lo = (@ \div 256) * 256 + BitXor(@ % 256, Head(bytes))]),
         Tail(bytes))

fnv1aHash(key) == Fnv1aFold(FnvOffsetBasis, key)

\* hash % n for a hash held in limbs.
HashMod(h, n) == ((h.hi % n) * (Limb % n) + h.lo) % n

\* A variant whose index also depends on what the map holds.
getPartition_by_load(key) ==
  (HashMod(fnv1aHash(key), Cardinality(DOMAIN partitions_))
     + Len(expected[key])) % Cardinality(DOMAIN partitions_)

\* Map::getPartition: the index of the partition a key's calls go to.
getPartition(key) == HashMod(fnv1aHash(key), Cardinality(DOMAIN partitions_))

\* What a partition's calls do to the values of one key.
RECURSIVE WithoutFirst(_, _)
WithoutFirst(values, v) ==
  IF values = <<>> THEN <<>>
  ELSE IF Head(values) = v THEN Tail(values)
  ELSE <<Head(values)>> \o WithoutFirst(Tail(values), v)

WithoutAll(values, v) == SelectSeq(values, LAMBDA x : x # v)

CountOf(values, v) == Len(values) - Len(WithoutAll(values, v))

Partition_removeValue(values, v) == WithoutFirst(values, v)
Partition_removeValues(values, v) == WithoutAll(values, v)
Partition_replaceValue(values, old, new) ==
  IF CountOf(values, old) = 0 THEN values
  ELSE Append(WithoutFirst(values, old), new)
Partition_replaceValues(values, old, new) ==
  WithoutAll(values, old) \o [i \in 1..CountOf(values, old) |-> new]

MapSize == Len(expected[<<>>]) + Len(expected[<<97>>]) + Len(expected[<<99>>])
             + Len(expected[<<97, 98>>])

\* A call on one key: it goes to the partition getPartition names, and there
\* turns the key's values into f of them.
Map_call(h, key, f(_)) ==
  LET i == getPartition(key) IN
  /\ maps[h] = "open"
  /\ partitions_' = [partitions_ EXCEPT ![i][key] = f(@)]
  /\ expected' = [expected EXCEPT ![key] = f(@)]
  /\ routed' = [key |-> key, index |-> i, called |-> TRUE]

\* An open that takes the directory lock whether or not it is held.
Map_open_unguarded(h) ==
  /\ maps[h] \in {"closed", "locked"}
  /\ lock_' = h
  /\ maps' = [maps EXCEPT ![h] = "open"]
  /\ UNCHANGED <<tablevars, vecvars, detailvars, partitions_, expected, routed, got>>

\* Map::Map(directory): takes the directory lock, or fails when it is held.
Map_open(h) ==
  /\ maps[h] \in {"closed", "locked"}
  /\ IF lock_ = 0
       THEN lock_' = h /\ maps' = [maps EXCEPT ![h] = "open"]
       ELSE lock_' = lock_ /\ maps' = [maps EXCEPT ![h] = "locked"]
  /\ UNCHANGED <<tablevars, vecvars, detailvars, partitions_, expected, routed, got>>

\* Map::~Map(): closes the partitions and gives the directory lock back.
Map_close(h) ==
  /\ maps[h] = "open"
  /\ lock_' = 0
  /\ maps' = [maps EXCEPT ![h] = "closed"]
  /\ UNCHANGED <<tablevars, vecvars, detailvars, partitions_, expected, routed, got>>

\* optimize(directory, output): holds the directory lock of the directory it
\* reads from its first statement to its return.
Map_optimize(h) ==
  /\ maps[h] \in {"closed", "locked"}
  /\ IF lock_ = 0
       THEN lock_' = h /\ maps' = [maps EXCEPT ![h] = "optimizing"]
       ELSE lock_' = lock_ /\ maps' = [maps EXCEPT ![h] = "locked"]
  /\ UNCHANGED <<tablevars, vecvars, detailvars, partitions_, expected, routed, got>>

Map_optimize_return(h) ==
  /\ maps[h] = "optimizing"
  /\ lock_' = 0
  /\ maps' = [maps EXCEPT ![h] = "closed"]
  /\ UNCHANGED <<tablevars, vecvars, detailvars, partitions_, expected, routed, got>>

Map_put(h, key, v) ==
  /\ MapSize < MaxMapPuts
  /\ Map_call(h, key, LAMBDA values : Append(values, v))
  /\ UNCHANGED <<tablevars, vecvars, detailvars, lock_, maps, got>>

Map_get(h, key) ==
  LET i == getPartition(key) IN
  /\ maps[h] = "open"
  /\ got' = [key |-> key, values |-> partitions_[i][key], called |-> TRUE]
  /\ routed' = [key |-> key, index |-> i, called |-> TRUE]
  /\ UNCHANGED <<tablevars, vecvars, detailvars, lock_, maps, partitions_, expected>>

Map_forEachValue(h, key) ==
  LET i == getPartition(key) IN
  /\ maps[h] = "open"
  /\ got' = [key |-> key, values |-> partitions_[i][key], called |-> TRUE]
  /\ routed' = [key |-> key, index |-> i, called |-> TRUE]
  /\ UNCHANGED <<tablevars, vecvars, detailvars, lock_, maps, partitions_, expected>>

Map_removeValue(h, key, v) ==
  /\ Map_call(h, key, LAMBDA values : Partition_removeValue(values, v))
  /\ UNCHANGED <<tablevars, vecvars, detailvars, lock_, maps, got>>

Map_removeValues(h, key, v) ==
  /\ Map_call(h, key, LAMBDA values : Partition_removeValues(values, v))
  /\ UNCHANGED <<tablevars, vecvars, detailvars, lock_, maps, got>>

Map_replaceValue(h, key, old, new) ==
  /\ Map_call(h, key, LAMBDA values : Partition_replaceValue(values, old, new))
  /\ UNCHANGED <<tablevars, vecvars, detailvars, lock_, maps, got>>

Map_replaceValues(h, key, old, new) ==
  /\ Map_call(h, key, LAMBDA values : Partition_replaceValues(values, old, new))
  /\ UNCHANGED <<tablevars, vecvars, detailvars, lock_, maps, got>>

MapNext ==
  \/ \E h \in Handles : Map_open(h)
  \/ \E h \in Handles : Map_close(h)
  \/ \E h \in Handles : Map_optimize(h)
  \/ \E h \in Handles : Map_optimize_return(h)
  \/ \E h \in Handles, key \in MapKeys, v \in SmallValues : Map_put(h, key, v)
  \/ \E h \in Handles, key \in MapKeys : Map_get(h, key)
  \/ \E h \in Handles, key \in MapKeys : Map_forEachValue(h, key)
  \/ \E h \in Handles, key \in MapKeys, v \in SmallValues : Map_removeValue(h, key, v)
  \/ \E h \in Handles, key \in MapKeys, v \in SmallValues : Map_removeValues(h, key, v)
  \/ \E h \in Handles, key \in MapKeys, old, new \in SmallValues :
       Map_replaceValue(h, key, old, new)
  \/ \E h \in Handles, key \in MapKeys, old, new \in SmallValues :
       Map_replaceValues(h, key, old, new)

MapSpec == Init /\ [][MapNext]_vars

(* ------------------------- a UintVector on its own -------------------- *)
\* The values added: small ones, ones whose varints take several bytes, and
\* ones further than N4_MAX_UINT from the others.
VecValues == {0, 1, 130, 2097152, 2097153, N4_MAX_UINT, N4_MAX_UINT + 1,
              N4_MAX_UINT + 2, 2 * N4_MAX_UINT + 2}

\* A call of add with a value above the values added before.
Vec_add(value) ==
  /\ ~vecCall.crashed
  /\ Len(vector.deltas) < MaxVecLen /\ vector.cut < 4 * MaxVecFails
  /\ vector.deltas # <<>> => vector.last < value
  /\ \E r \in UintVector_add_outcomes(vector, value) :
       /\ vector' = r.vec
       /\ vecCall' = [op |-> "add", value |-> value, ok |-> r.ok,
                      crashed |-> r.crashed, values |-> <<>>]
       /\ vecBefore' = IF r.ok THEN [failed |-> FALSE, values |-> <<>>]
                       ELSE IF vector.cut = 0
                         THEN [failed |-> TRUE, values |-> UintVector_unpack(vector)]
                         ELSE vecBefore
  /\ UNCHANGED <<tablevars, mapvars, detailvars>>

\* A call of unpack.
Vec_unpack ==
  /\ ~vecCall.crashed
  /\ \E r \in UintVector_unpack_outcomes(vector) :
       vecCall' = [op |-> "unpack", value |-> 0, ok |-> TRUE,
                   crashed |-> r.crashed, values |-> r.values]
  /\ UNCHANGED <<tablevars, mapvars, detailvars, vector, vecBefore>>

VecNext ==
  \/ \E value \in VecValues : Vec_add(value)
  \/ Vec_unpack

VecSpec == Init /\ [][VecNext]_vars

(* -------------------- forEachKey with a failing procedure ------------- *)
\* Faulty variant of the unwinding of Table::forEachKey: the list stays
\* locked when the exception passes the SharedListLock.
Table_forEachKey_throw_leaking(t) ==
  /\ pc[t] = "body" /\ arg[t].op = "forEachKey"
  /\ ~List_empty(map_[arg[t].key])
  /\ visits' = [visits EXCEPT ![t] = Append(@, [key |-> arg[t].key, nonempty |-> TRUE])]
  /\ calls' = [calls EXCEPT ![t] = Append(@, arg[t].key)]
  /\ held' = [held EXCEPT ![t] = "none"]
  /\ tableReaders' = tableReaders \ {t}
  /\ err' = [err EXCEPT ![t] = TRUE]
  /\ pc' = [pc EXCEPT ![t] = "idle"]
  /\ UNCHANGED <<mapvars, vecvars, detailvars, output, nested, tableWriters, iter, ret,
                 isOpen, map_, store, keysFile, arg, todo, nops, hist, lockOrder,
                 preClose, skipped>>

\* Table::forEachKey when procedure(entry.first) throws: the exception leaves
\* the loop, the SharedListLock of the entry and the shared_lock on mutex_ go
\* out of scope, and the caller gets the exception.
Table_forEachKey_throw(t) ==
  /\ pc[t] = "body" /\ arg[t].op = "forEachKey"
  /\ ~List_empty(map_[arg[t].key])
  /\ visits' = [visits EXCEPT ![t] = Append(@, [key |-> arg[t].key, nonempty |-> TRUE])]
  /\ calls' = [calls EXCEPT ![t] = Append(@, arg[t].key)]
  /\ map_' = [map_ EXCEPT ![arg[t].key] = List_UnlockShared(@)]
  /\ held' = [held EXCEPT ![t] = "none"]
  /\ tableReaders' = tableReaders \ {t}
  /\ err' = [err EXCEPT ![t] = TRUE]
  /\ pc' = [pc EXCEPT ![t] = "idle"]
  /\ UNCHANGED <<mapvars, vecvars, detailvars, output, nested, tableWriters, iter, ret,
                 isOpen, store, keysFile, arg, todo, nops, hist, lockOrder,
                 preClose, skipped>>

ThrowStep(t) ==
  \/ PutGetStep(t)
  \/ Table_scan_next(t)
  \/ Table_forEachKey_visit(t)
  \/ Table_forEachKey_throw(t)

ThrowNext ==
  \/ \E t \in Threads : Shard_put(t)
  \/ \E t \in Threads : Table_forEachKey(t)
  \/ \E t \in Threads : ThrowStep(t)

ThrowSpec == Init /\ [][ThrowNext]_vars

(* ---------------- a put by a thread that holds a list ----------------- *)
\* Shard::getMutable: the caller gets an iterator that holds the list of the
\* key uniquely (none for a key that is absent).
Shard_getMutable(t) ==
  \E k \in Keys : Table_getUnique(t, [IdleArg EXCEPT !.op = "getMutable", !.key = k])

\* While it holds the iterator, the caller calls Shard::put on another key.
Holder_put(t) ==
  /\ pc[t] = "body" /\ arg[t].op = "getMutable"
  /\ \E k \in Keys \ {arg[t].key} :
       nested' = [nested EXCEPT ![t] = [op |-> "put", key |-> k, pc |-> "table"]]
  /\ pc' = [pc EXCEPT ![t] = "procedure"]
  /\ UNCHANGED <<mapvars, vecvars, detailvars, output, tableWriters, iter, ret, isOpen,
                 map_, store, keysFile, tableReaders, arg, held, todo, err, nops, hist,
                 lockOrder, visits, calls, preClose, skipped>>

\* The put has returned; the caller drops the iterator next.
Holder_return(t) ==
  /\ pc[t] = "procedure" /\ arg[t].op = "getMutable" /\ nested[t].pc = "done"
  /\ nested' = [nested EXCEPT ![t] = NoNested]
  /\ pc' = [pc EXCEPT ![t] = "unlock"]
  /\ UNCHANGED <<mapvars, vecvars, detailvars, output, tableWriters, iter, ret, isOpen,
                 map_, store, keysFile, tableReaders, arg, held, todo, err, nops, hist,
                 lockOrder, visits, calls, preClose, skipped>>

\* The threads calling put, getMutable followed by put, forEachKey and
\* flushAllListsAndWaitIfLocked.
HolderStep(t) ==
  \/ Table_getUniqueOrCreate_locked(t)
  \/ List_LockShared_enter(t)
  \/ List_LockShared_wait(t)
  \/ List_LockUnique_enter(t)
  \/ List_LockUnique_wait(t)
  \/ Shard_put_add(t)
  \/ List_UnlockShared_call(t)
  \/ List_UnlockUnique_call(t)
  \/ Table_scan_next(t)
  \/ Table_forEachKey_visit(t)
  \/ Table_flush_list(t)
  \/ Holder_put(t)
  \/ Nested_getUniqueOrCreate_lock(t)
  \/ Nested_Lock_enter(t)
  \/ Nested_LockUnique_wait(t)
  \/ Nested_Unlock(t)
  \/ Holder_return(t)

HolderNext ==
  \/ \E t \in Threads : Table_getUniqueOrCreate_lock(t)
  \/ \E t \in Threads : Shard_getMutable(t)
  \/ \E t \in Threads : Table_forEachKey(t)
  \/ \E t \in Threads : Table_flushAllListsAndWaitIfLocked(t)
  \/ \E t \in Threads : HolderStep(t)

\* A thread inside a call keeps running while it can: each thread's steps
\* are taken when they stay possible.
HolderFairSpec ==
  Init /\ [][HolderNext]_vars /\ \A t \in Threads : WF_vars(HolderStep(t))

(* ------------------------- replace by its steps ----------------------- *)
\* Faulty variant of iter.releaseListLock(): the list is unlocked before the
\* replacements are added.
Shard_replace_release_unlocking(t) ==
  /\ pc[t] = "release" /\ arg[t].op = "replace"
  /\ map_' = [map_ EXCEPT ![arg[t].key] = List_UnlockUnique(@)]
  /\ held' = [held EXCEPT ![t] = "none"]
  /\ pc' = [pc EXCEPT ![t] = "adding"]
  /\ UNCHANGED <<mapvars, vecvars, detailvars, output, nested, tableWriters, iter, ret,
                 isOpen, store, keysFile, tableReaders, arg, todo, err, nops,
                 hist, lockOrder, visits, calls, preClose, skipped>>

\* Shard::replace, its two loops over the iterator: the values the function
\* replaces are marked as deleted and their replacements collected.
Shard_replace_loops(t) ==
  /\ pc[t] = "body" /\ arg[t].op = "replace"
  /\ LET k == arg[t].key
         entries == AllEntries(map_[k], store)
         T == Targets(entries, Accepted(arg[t].fn), arg[t].all)
         marked == MarkDeleted(map_[k], store, T)
         order == SortedSeq(T)
     IN /\ map_' = [map_ EXCEPT ![k] = marked.list]
        /\ store' = marked.store
        /\ to_append' = [to_append EXCEPT ![t] =
                                [i \in 1..Len(order) |-> arg[t].fn[entries[order[i]].val]]]
        /\ hist' = [hist EXCEPT ![k] =
                      HistRemove(@, HistTargets(@, Accepted(arg[t].fn), arg[t].all))]
        /\ ret' = [ret EXCEPT ![t] = [NoResult EXCEPT !.hasList = TRUE,
                                                      !.count = Cardinality(T)]]
        /\ pc' = [pc EXCEPT ![t] = IF T = {} THEN "unlock" ELSE "release"]
  /\ UNCHANGED <<mapvars, vecvars, crashvars, lockvars, scanvars, commitvars, output,
                 nested, tableWriters, iter, isOpen, keysFile, tableReaders, arg, held,
                 todo, err, nops, lockOrder, visits, calls, preClose, skipped>>

\* Shard::replace, auto list_lock = iter.releaseListLock(): the lock passes
\* from the iterator to list_lock and stays held.
Shard_replace_release(t) ==
  /\ pc[t] = "release" /\ arg[t].op = "replace"
  /\ pc' = [pc EXCEPT ![t] = "adding"]
  /\ UNCHANGED <<mapvars, vecvars, detailvars, output, nested, tableWriters, iter, ret,
                 isOpen, map_, store, keysFile, tableReaders, arg, held, todo, err, nops,
                 hist, lockOrder, visits, calls, preClose, skipped>>

\* Shard::replace, one round of its add loop; a value the list rejects ends
\* the call.
Shard_replace_add(t) ==
  /\ pc[t] = "adding" /\ arg[t].op = "replace"
  /\ LET k == arg[t].key
         v == Head(to_append[t])
         r == List_Add(map_[k], store, v)
     IN /\ map_' = [map_ EXCEPT ![k] = r.list]
        /\ store' = r.store
        /\ err' = [err EXCEPT ![t] = r.failed]
        /\ hist' = IF r.failed THEN hist
                   ELSE [hist EXCEPT ![k] = HistAppend(@, <<v>>)]
        /\ lockOrder' = IF r.failed THEN lockOrder
                        ELSE [lockOrder EXCEPT ![k] = Append(@, v)]
        /\ to_append' = [to_append EXCEPT ![t] =
                                IF r.failed THEN <<>> ELSE Tail(@)]
        /\ pc' = [pc EXCEPT ![t] =
                    IF r.failed \/ Tail(to_append[t]) = <<>> THEN "unlock"
                    ELSE "adding"]
  /\ UNCHANGED <<mapvars, vecvars, crashvars, lockvars, scanvars, commitvars, output,
                 nested, tableWriters, iter, ret, isOpen, keysFile, tableReaders, arg,
                 held, todo, nops, visits, calls, preClose, skipped>>

\* The threads calling put, get, replace and getStats.
ReplaceStep(t) ==
  \/ List_LockShared_enter(t)
  \/ List_LockShared_wait(t)
  \/ List_LockUnique_enter(t)
  \/ List_LockUnique_wait(t)
  \/ Shard_put_add(t)
  \/ List_UnlockShared_call(t)
  \/ List_UnlockUnique_call(t)
  \/ Shard_replace_loops(t)
  \/ Shard_replace_release(t)
  \/ Shard_replace_add(t)

ReplaceNext ==
  \/ \E t \in Threads : Shard_put(t)
  \/ \E t \in Threads : Shard_get(t)
  \/ \E t \in Threads : Shard_replace(t)
  \/ \E t \in Threads : Table_getStats(t)
  \/ \E t \in Threads : ReplaceStep(t)

ReplaceSpec == Init /\ [][ReplaceNext]_vars

(* ------------------- close file by file, and a stop ------------------- *)
\* The heads a key passes through here are numbered: head n is the head
\* after n puts on the key.  A key with head 0 is not in the table.
LoadedKeys == {k \in Keys : loaded[k].head > 0}
EntryOf(k) == [key |-> k, head |-> loaded[k].head]

\* A put between open and close (Shard::put): the head of the key changes.
Crash_put(k) ==
  /\ closing.pc = "open"
  /\ loaded[k].head < MaxHead
  /\ loaded' = [loaded EXCEPT ![k].head = @ + 1]
  /\ UNCHANGED <<besidesCrash, disk, closing, reopened>>

\* Another thread takes an iterator on the key and keeps it past the close.
Crash_hold(k) ==
  /\ closing.pc = "open"
  /\ loaded[k].head > 0 /\ ~loaded[k].locked
  /\ loaded' = [loaded EXCEPT ![k].locked = TRUE]
  /\ UNCHANGED <<besidesCrash, disk, closing, reopened>>

\* Table::close: std::rename(path_, path_ + ".old").
Table_close_rename ==
  /\ closing.pc = "open"
  /\ disk.keys.exists
  /\ \E order \in Orders(LoadedKeys) :
       closing' = [pc |-> "renamed",
                   todo |-> order,
                   num_keys |-> Cardinality(LoadedKeys),
                   num_keys_written |-> 0,
                   flushed |-> FALSE,
                   before |-> disk.keys,
                   after |-> KeysFileOf(SelectSeq([i \in 1..Len(order) |-> EntryOf(order[i])],
                                                  LAMBDA e : ~loaded[e.key].locked))]
  /\ disk' = [keys |-> Missing, old |-> disk.keys]
  /\ reopened' = NotFound
  /\ UNCHANGED <<besidesCrash, loaded>>

\* Table::close: std::fopen(path_, "w") creates the file anew.
Table_close_fopen ==
  /\ closing.pc = "renamed"
  /\ disk' = [disk EXCEPT !.keys = EmptyFile]
  /\ closing' = [closing EXCEPT !.pc = "created"]
  /\ UNCHANGED <<besidesCrash, loaded, reopened>>

\* Table::close: num_keys = map_.size() is written first.
Table_close_write_num_keys ==
  /\ closing.pc = "created"
  /\ disk' = [disk EXCEPT !.keys.hasCount = TRUE,
                          !.keys.num_keys = closing.num_keys]
  /\ closing' = [closing EXCEPT !.pc = "loop"]
  /\ UNCHANGED <<besidesCrash, loaded, reopened>>

\* Table::close: one round of the loop over map_: the entry of a list whose
\* lock could be taken is written, a locked list is skipped.
Table_close_entry ==
  /\ closing.pc = "loop"
  /\ closing.todo # <<>>
  /\ LET k == Head(closing.todo)
     IN IF ~loaded[k].locked
        THEN /\ disk' = [disk EXCEPT !.keys.entries = Append(@, EntryOf(k))]
             /\ closing' = [closing EXCEPT !.todo = Tail(@),
                                           !.num_keys_written = @ + 1]
        ELSE /\ disk' = disk
             /\ closing' = [closing EXCEPT !.todo = Tail(@)]
  /\ UNCHANGED <<besidesCrash, loaded, reopened>>

\* Table::close: when fewer entries were written than map_.size(), the
\* stream is rewound (which flushes it) and the count is written again.
Table_close_rewind ==
  /\ closing.pc = "loop"
  /\ closing.todo = <<>>
  /\ IF closing.num_keys_written # closing.num_keys
     THEN /\ closing' = [closing EXCEPT !.pc = "counted", !.flushed = TRUE]
          /\ disk' = [disk EXCEPT !.keys.num_keys = closing.num_keys_written]
     ELSE /\ closing' = [closing EXCEPT !.pc = "counted"]
          /\ disk' = disk
  /\ UNCHANGED <<besidesCrash, loaded, reopened>>

\* Table::close: std::remove(backup_path).
Table_close_remove_backup ==
  /\ closing.pc = "counted"
  /\ disk' = [disk EXCEPT !.old = Missing]
  /\ closing' = [closing EXCEPT !.pc = "removed"]
  /\ UNCHANGED <<besidesCrash, loaded, reopened>>

\* Table::close returns: arena_.reset(), path_.clear(), map_.clear(), and
\* the stream is closed when its AutoCloseFile goes out of scope.
Table_close_return ==
  /\ closing.pc = "removed"
  /\ closing' = [closing EXCEPT !.pc = "closed", !.flushed = TRUE]
  /\ loaded' = [k \in Keys |-> NoEntry]
  /\ UNCHANGED <<besidesCrash, disk, reopened>>

\* What is in the file at the path when the process stops: the stream is
\* fully buffered, so of the bytes written since the last flush any prefix
\* may be missing from the file.
OnDisk(file, pos) ==
  IF ~file.exists \/ pos.pc \in {"open", "closed"} THEN {file}
  ELSE IF pos.flushed
    THEN {file, [file EXCEPT !.num_keys = pos.num_keys]}
    ELSE {EmptyFile} \cup
         {[file EXCEPT !.hasCount = TRUE, !.entries = SubSeq(@, 1, n)] :
            n \in 0..Len(file.entries)}

\* The process stops (a crash, a kill, a power loss) at any step.
Process_stop ==
  /\ closing.pc \notin {"stopped"}
  /\ \E file \in OnDisk(disk.keys, closing) :
       disk' = [disk EXCEPT !.keys = file]
  /\ closing' = IF closing.pc \in {"open", "closed"}
                THEN [closing EXCEPT !.pc = "stopped", !.before = disk.keys,
                                     !.after = disk.keys]
                ELSE [closing EXCEPT !.pc = "stopped"]
  /\ loaded' = [k \in Keys |-> NoEntry]
  /\ UNCHANGED <<besidesCrash, reopened>>

\* Whether reading the file as Table::open does gets to its end: the count
\* and then as many entries as the count says.
Readable_file(file) ==
  file.exists /\ file.hasCount /\ file.num_keys = Len(file.entries)

\* Table::open(file, create_if_missing) of the next process, or after close.
Table_open_file(create_if_missing) ==
  /\ closing.pc \in {"stopped", "closed"}
  /\ reopened' = IF closing.pc = "stopped"
              THEN [tried |-> TRUE, file |-> disk.keys,
                    before |-> closing.before, after |-> closing.after]
              ELSE reopened
  /\ IF disk.keys.exists
     THEN IF Readable_file(disk.keys)
          THEN /\ loaded' = [k \in Keys |->
                      IF \E i \in 1..Len(disk.keys.entries) : disk.keys.entries[i].key = k
                      THEN [head |-> disk.keys.entries[
                                       CHOOSE i \in 1..Len(disk.keys.entries) :
                                         disk.keys.entries[i].key = k].head,
                            locked |-> FALSE]
                      ELSE NoEntry]
               /\ closing' = NotClosing
               /\ disk' = disk
          ELSE UNCHANGED <<loaded, closing, disk>>
     ELSE IF create_if_missing
          THEN /\ loaded' = [k \in Keys |-> NoEntry]
               /\ disk' = [disk EXCEPT !.keys = KeysFileOf(<<>>)]
               /\ closing' = NotClosing
          ELSE UNCHANGED <<loaded, closing, disk>>
  /\ UNCHANGED besidesCrash

CrashNext ==
  \/ \E k \in Keys : Crash_put(k)
  \/ \E k \in Keys : Crash_hold(k)
  \/ Table_close_rename
  \/ Table_close_fopen
  \/ Table_close_write_num_keys
  \/ Table_close_entry
  \/ Table_close_rewind
  \/ Table_close_remove_backup
  \/ Table_close_return
  \/ Process_stop
  \/ \E create_if_missing \in BOOLEAN : Table_open_file(create_if_missing)

CrashSpec == Init /\ [][CrashNext]_vars

(* ----------------------- the lock of a list alone --------------------- *)
Idle == [key |-> 0, pc |-> "idle"]
NoTry == [key |-> 0, op |-> "none", locked |-> FALSE]

\* The threads that are counted in the use count of the list of k: those
\* that wait for its mutex and those that own it.
Users(k) == {t \in Lockers : locker[t].key = k}
Owners(k, mode) == {t \in Lockers : locker[t] = [key |-> k, pc |-> mode]}

\* List::LockShared, its lock_guard block.
Locker_LockShared_enter(t, k) ==
  /\ locker[t] = Idle
  /\ locks' = [locks EXCEPT ![k] = List_LockEnter(@)]
  /\ locker' = [locker EXCEPT ![t] = [key |-> k, pc |-> "wait_shared"]]
  /\ UNCHANGED <<besidesLocks, tried>>

\* List::LockShared, mutex_->lock_shared().
Locker_LockShared_wait(t) ==
  /\ locker[t].pc = "wait_shared"
  /\ Mutex_can_lock_shared(locks[locker[t].key].mutex_)
  /\ locks' = [locks EXCEPT ![locker[t].key].mutex_.shared = @ + 1]
  /\ locker' = [locker EXCEPT ![t].pc = "shared"]
  /\ UNCHANGED <<besidesLocks, tried>>

\* List::LockUnique, its lock_guard block.
Locker_LockUnique_enter(t, k) ==
  /\ locker[t] = Idle
  /\ locks' = [locks EXCEPT ![k] = List_LockEnter(@)]
  /\ locker' = [locker EXCEPT ![t] = [key |-> k, pc |-> "wait_unique"]]
  /\ UNCHANGED <<besidesLocks, tried>>

\* List::LockUnique, mutex_->lock().
Locker_LockUnique_wait(t) ==
  /\ locker[t].pc = "wait_unique"
  /\ Mutex_can_lock(locks[locker[t].key].mutex_)
  /\ locks' = [locks EXCEPT ![locker[t].key].mutex_.exclusive = TRUE]
  /\ locker' = [locker EXCEPT ![t].pc = "unique"]
  /\ UNCHANGED <<besidesLocks, tried>>

\* List::TryLockShared
Locker_TryLockShared(t, k) ==
  /\ locker[t] = Idle
  /\ LET r == List_TryLockShared(locks[k])
     IN /\ locks' = [locks EXCEPT ![k] = r.list]
        /\ locker' = [locker EXCEPT ![t] =
                        IF r.locked THEN [key |-> k, pc |-> "shared"] ELSE Idle]
        /\ tried' = [key |-> k, op |-> "TryLockShared", locked |-> r.locked]
  /\ UNCHANGED besidesLocks

\* List::TryLockUnique
Locker_TryLockUnique(t, k) ==
  /\ locker[t] = Idle
  /\ LET r == List_TryLockUnique(locks[k])
     IN /\ locks' = [locks EXCEPT ![k] = r.list]
        /\ locker' = [locker EXCEPT ![t] =
                        IF r.locked THEN [key |-> k, pc |-> "unique"] ELSE Idle]
        /\ tried' = [key |-> k, op |-> "TryLockUnique", locked |-> r.locked]
  /\ UNCHANGED besidesLocks

\* List::UnlockShared
Locker_UnlockShared(t) ==
  /\ locker[t].pc = "shared"
  /\ locks' = [locks EXCEPT ![locker[t].key] = List_UnlockShared(@)]
  /\ locker' = [locker EXCEPT ![t] = Idle]
  /\ UNCHANGED <<besidesLocks, tried>>

\* List::UnlockUnique
Locker_UnlockUnique(t) ==
  /\ locker[t].pc = "unique"
  /\ locks' = [locks EXCEPT ![locker[t].key] = List_UnlockUnique(@)]
  /\ locker' = [locker EXCEPT ![t] = Idle]
  /\ UNCHANGED <<besidesLocks, tried>>

LockNext ==
  \E t \in Lockers :
    \/ \E k \in Keys : Locker_LockShared_enter(t, k)
    \/ Locker_LockShared_wait(t)
    \/ \E k \in Keys : Locker_LockUnique_enter(t, k)
    \/ Locker_LockUnique_wait(t)
    \/ \E k \in Keys : Locker_TryLockShared(t, k)
    \/ \E k \in Keys : Locker_TryLockUnique(t, k)
    \/ Locker_UnlockShared(t)
    \/ Locker_UnlockUnique(t)

LockSpec == Init /\ [][LockNext]_vars

(* ------------------- forEachEntry and the store's advice -------------- *)
\* Before the first forEachEntry the store has been given no advice here
\* (the pattern it starts with is set outside of Shard::forEachEntry).
NotScanning == [pc |-> "idle", todo |-> <<>>, ended |-> "never"]

\* Shard::forEachEntry: store_.adviseAccessPattern(SEQUENTIAL), and the scan
\* of the entries of the table begins, in the order of the table.
Shard_forEachEntry_advise(t) ==
  /\ scanner[t].pc = "idle"
  /\ pattern' = "SEQUENTIAL"
  /\ \E S \in SUBSET Keys : \E order \in Orders(S) :
       scanner' = [scanner EXCEPT ![t] = [pc |-> "scan", todo |-> order,
                                          ended |-> @.ended]]
  /\ UNCHANGED besidesScans

\* table_.forEachEntry: the procedure is called with the next entry.  It
\* returns, or it throws and the exception leaves Shard::forEachEntry.
Shard_forEachEntry_call(t, throws) ==
  /\ scanner[t].pc = "scan"
  /\ scanner[t].todo # <<>>
  /\ scanner' = [scanner EXCEPT ![t] =
                   IF throws THEN [pc |-> "idle", todo |-> <<>>, ended |-> "thrown"]
                   ELSE [@ EXCEPT !.todo = Tail(@)]]
  /\ UNCHANGED <<besidesScans, pattern>>

\* Shard::forEachEntry: after the scan, store_.adviseAccessPattern(RANDOM).
Shard_forEachEntry_reset(t) ==
  /\ scanner[t].pc = "scan"
  /\ scanner[t].todo = <<>>
  /\ pattern' = "RANDOM"
  /\ scanner' = [scanner EXCEPT ![t] = [pc |-> "idle", todo |-> <<>>,
                                        ended |-> "returned"]]
  /\ UNCHANGED besidesScans

ScanNext ==
  \E t \in Threads :
    \/ Shard_forEachEntry_advise(t)
    \/ \E throws \in BOOLEAN : Shard_forEachEntry_call(t, throws)
    \/ Shard_forEachEntry_reset(t)

ScanSpec == Init /\ [][ScanNext]_vars

(* --------------------- a list committing its blocks ------------------- *)
\* The blocks other lists commit between two commits of the list.
StoreGrowth == {1, N4_MAX_UINT, N4_MAX_UINT + 1}

\* head_.block_ids.Add(commit_block(std::move(block_))) when the callback
\* has returned id: the list afterwards, for each outcome of the add.
List_commit_outcomes(list, id) ==
  {[list |-> [list EXCEPT !.head.block_ids = r.vec], crashed |-> r.crashed] :
     r \in UintVector_add_outcomes(list.head.block_ids, id)}

\* Other lists of the partition commit n blocks to the store.
Commit_Store_grows(n) ==
  /\ committing.grown < MaxGrowths
  /\ committing' = [committing EXCEPT !.next = @ + n, !.grown = @ + 1]
  /\ UNCHANGED besidesCommits

\* List::Flush with a tail block.
Commit_List_Flush ==
  /\ ~committing.crashed
  /\ committing.list.block_.has_data
  /\ Len(committing.returned) < MaxCommits
  /\ \E o \in List_commit_outcomes(committing.list, committing.next) :
       committing' = [committing EXCEPT
                        !.list = [o.list EXCEPT !.block_ = NoBlock],
                        !.crashed = o.crashed,
                        !.returned = Append(@, committing.next),
                        !.next = @ + 1]
  /\ UNCHANGED besidesCommits

\* List::Add: into the tail block, or into a new block after the full tail
\* block was committed.
Commit_List_Add(v) ==
  /\ ~committing.crashed
  /\ LET list == committing.list
         block1 == IF list.block_.has_data THEN list.block_ ELSE FreshBlock
     IN IF Block_Fits(block1, v)
        THEN committing' = [committing EXCEPT
                              !.list.block_ = Block_TryAdd(block1, v),
                              !.list.head.num_values_total = @ + 1]
        ELSE /\ Len(committing.returned) < MaxCommits
             /\ \E o \in List_commit_outcomes(list, committing.next) :
                  committing' = [committing EXCEPT
                                   !.list = [o.list EXCEPT
                                               !.block_ = Block_TryAdd(FreshBlock, v),
                                               !.head.num_values_total = @ + 1],
                                   !.crashed = o.crashed,
                                   !.returned = Append(@, committing.next),
                                   !.next = @ + 1]
  /\ UNCHANGED besidesCommits

CommitNext ==
  \/ \E n \in StoreGrowth : Commit_Store_grows(n)
  \/ Commit_List_Flush
  \/ \E v \in SmallValues : Commit_List_Add(v)

CommitSpec == Init /\ [][CommitNext]_vars

(* ------------------------------ properties ---------------------------- *)
Present(k) == isOpen /\ map_[k] # NoList
NoRemoval(h) == \A i \in 1..Len(h) : ~h[i].removed
CommittedIds(k) == UintVector_unpack(map_[k].head.block_ids)

\* C1: for every key, when the values V1..Vn were appended and none was
\* removed, iterating the key yields exactly V1..Vn in insertion order,
\* wherever the values lie (committed blocks or tail block).
C1_IterationInInsertionOrder ==
  \A k \in Keys :
    Present(k) /\ NoRemoval(hist[k]) => Iterate(map_[k], store) = HistValues(hist[k])

\* A list with a committed block and a non-empty tail block, nothing removed,
\* whose iteration yields the appended values.
C1_Witness ==
  \E k \in Keys :
    /\ Present(k) /\ NoRemoval(hist[k])
    /\ CommittedIds(k) # <<>>
    /\ map_[k].block_.entries # <<>>
    /\ Len(hist[k]) >= 2
    /\ Iterate(map_[k], store) = HistValues(hist[k])

\* C2: an iteration never yields a value a completed remove has tombstoned:
\* it yields exactly the appended values not removed, so every removed value
\* is stored with its deleted bit set; and a deleted bit once set in a list
\* is never cleared by a later operation on it.
C2_TombstoneNeverYielded ==
  \A k \in Keys :
    Present(k) =>
      /\ Iterate(map_[k], store) = HistValues(SelectSeq(hist[k], HistKept))
      /\ Len(AllEntries(map_[k], store)) = Len(hist[k])
      /\ \A i \in 1..Len(hist[k]) :
           hist[k][i].removed => AllEntries(map_[k], store)[i].deleted

C2_TombstoneNeverUndoneStep ==
  \A k \in Keys :
    Present(k) /\ Present(k)' =>
      \A i \in 1..Len(AllEntries(map_[k], store)) :
        AllEntries(map_[k], store)[i].deleted =>
          /\ i <= Len(AllEntries(map_[k], store)')
          /\ AllEntries(map_[k], store)'[i].deleted

C2_TombstonesStay == []C2_TombstoneNeverYielded /\ [][C2_TombstoneNeverUndoneStep]_vars

\* A list holding a tombstone in a committed block next to values an
\* iteration still yields.
C2_Witness ==
  \E k \in Keys :
    /\ Present(k)
    /\ CommittedIds(k) # <<>>
    /\ \E i \in 1..Len(Store_read(store, CommittedIds(k)[1])) :
         Store_read(store, CommittedIds(k)[1])[i].deleted
    /\ ~NoRemoval(hist[k])
    /\ Iterate(map_[k], store) # <<>>

\* C3: in every reachable state and for every key, num_values_deleted is at
\* most num_values_total and their difference is the number of values an
\* iteration of the key yields.
C3_CountersMatchIteration ==
  \A k \in Keys :
    Present(k) =>
      /\ map_[k].head.num_values_deleted <= map_[k].head.num_values_total
      /\ map_[k].head.num_values_total - map_[k].head.num_values_deleted
           = Len(Iterate(map_[k], store))

\* A list after appends, a removal and a flush or commit.
C3_Witness ==
  \E k \in Keys :
    /\ Present(k)
    /\ map_[k].head.num_values_deleted >= 1
    /\ map_[k].head.num_values_total > map_[k].head.num_values_deleted
    /\ CommittedIds(k) # <<>>

\* C4: closing the table while no list is held and opening it again gives,
\* for every key, the values that were readable before the close, in order.
C4_OpenStep ==
  (~isOpen /\ isOpen' /\ skipped = {}) => \A k \in Keys : Readable(k)' = preClose[k]

C4_CloseOpenRoundTrip == [][C4_OpenStep]_vars

\* A reopened table with a list of two or more values, one of them behind a
\* tombstone, read back as before the close.
C4_Witness ==
  /\ isOpen /\ keysFile # {} /\ skipped = {}
  /\ \E k \in Keys :
       /\ Present(k)
       /\ ~map_[k].block_.has_data
       /\ Len(preClose[k]) >= 1
       /\ map_[k].head.num_values_deleted >= 1
       /\ Readable(k) = preClose[k]

\* C5: a put of a value larger than max_value_size fails and leaves the list
\* unchanged: its values, num_values_total, num_values_deleted, block_ids and
\* tail block are as before the call.
C5_OversizePutStep ==
  \A t \in Threads :
    (/\ pc[t] = "body" /\ arg[t].op = "put"
     /\ SizeOf(arg[t].val) > Block_max_value_size
     /\ pc'[t] = "unlock")
    => /\ err'[t]
       /\ Readable(arg[t].key)' = Readable(arg[t].key)
       /\ map_'[arg[t].key].head = map_[arg[t].key].head
       /\ map_'[arg[t].key].block_ = map_[arg[t].key].block_

C5_OversizePutLeavesListUnchanged == [][C5_OversizePutStep]_vars

\* Thread t holds list k in the given mode (a handle on a list that a close
\* has destroyed holds nothing of the table's lists).
Holds(t, k, mode) ==
  held[t] = mode /\ arg[t].key = k /\ pc[t] \notin {"dangling", "crashed"}

\* C6: no thread holds a list's unique lock while another thread holds the
\* same list's shared or unique lock; a thread waiting for the unique lock
\* cannot get it while another thread holds the list, and a thread waiting
\* for the shared lock cannot get it while another thread holds it uniquely.
C6_WriterExclusion ==
  /\ \A k \in Keys : \A t1, t2 \in Threads :
       t1 # t2 /\ Holds(t1, k, "unique")
         => ~Holds(t2, k, "shared") /\ ~Holds(t2, k, "unique")
  /\ \A t \in Threads :
       /\ pc[t] = "wait_unique"
          /\ (\E u \in Threads \ {t} : Holds(u, arg[t].key, "shared")
                                        \/ Holds(u, arg[t].key, "unique"))
          => ~ENABLED List_LockUnique_wait(t)
       /\ pc[t] = "wait_shared"
          /\ (\E u \in Threads \ {t} : Holds(u, arg[t].key, "unique"))
          => ~ENABLED List_LockShared_wait(t)

\* A writer holds a list while another thread waits for the same list.
C6_Witness ==
  \E t1, t2 \in Threads :
    /\ t1 # t2
    /\ Holds(t1, arg[t1].key, "unique")
    /\ arg[t2].key = arg[t1].key
    /\ pc[t2] \in {"wait_unique", "wait_shared"}

C8_NoEffectWhileReadStep ==
  \A k \in Keys :
    (Present(k) /\ Present(k)' /\ \E t \in Threads : Holds(t, k, "shared"))
      => /\ map_'[k].head = map_[k].head
         /\ AllEntries(map_[k], store)' = AllEntries(map_[k], store)

C8_PutAppendsStep ==
  \A t \in Threads :
    (pc[t] = "body" /\ arg[t].op = "put" /\ pc'[t] = "unlock" /\ ~err'[t])
      => Readable(arg[t].key)' = Append(Readable(arg[t].key), arg[t].val)

C8_PutWaitsForIteratorAndCompletes ==
  /\ [][C8_NoEffectWhileReadStep /\ C8_PutAppendsStep]_vars
  /\ \A t \in Threads :
       (pc[t] \in {"lock_unique", "wait_unique"} /\ arg[t].op = "put")
         ~> (pc[t] = "idle" /\ arg[t].op = "put")

\* A put waits for the unique lock of a list with values while another
\* thread holds an iterator on that list.
C8_Witness ==
  \E t, u \in Threads :
    /\ pc[t] = "wait_unique" /\ arg[t].op = "put"
    /\ pc[u] = "reading" /\ Holds(u, arg[t].key, "shared")
    /\ Readable(arg[t].key) # <<>>

\* Some thread holds list k uniquely for a put whose value is not yet added.
PendingPut(k) ==
  \E t \in Threads : Holds(t, k, "unique") /\ arg[t].op = "put" /\ pc[t] = "body"

\* C9: with concurrent puts to one key no append is lost or duplicated: the
\* values stored in the list are, one for one and in this order, the values
\* of the appends in the order in which they acquired the unique lock.
C9_AppendsInLockOrder ==
  \A k \in Keys :
    Present(k) =>
      ValuesOf(AllEntries(map_[k], store)) =
        IF PendingPut(k) THEN SubSeq(lockOrder[k], 1, Len(lockOrder[k]) - 1)
        ELSE lockOrder[k]

\* Both threads have put a value to the same key, and one of them had to
\* wait for the other: both values are in the list.
C9_Witness ==
  \E k \in Keys :
    /\ Present(k)
    /\ \A t \in Threads : arg[t].op = "put" /\ arg[t].key = k /\ ~err[t]
    /\ \E t1, t2 \in Threads :
         /\ pc[t1] = "idle" /\ pc[t2] = "unlock"
         /\ arg[t1].val # arg[t2].val
         /\ ValuesOf(AllEntries(map_[k], store)) = <<arg[t1].val, arg[t2].val>>

VisitedKeys(t) == {visits[t][i].key : i \in 1..Len(visits[t])}
VisitNonEmpty(v) == v.nonempty
VisitKeys(vs) == [i \in 1..Len(vs) |-> vs[i].key]

\* C10: forEachKey calls the procedure exactly once for each key whose list
\* yields a value at the moment the key is visited, never for a key whose
\* list is empty, and it visits every key of the table once.
C10_ForEachKeyCallsNonEmptyKeys ==
  \A t \in Threads :
    arg[t].op = "forEachKey" =>
      /\ calls[t] = VisitKeys(SelectSeq(visits[t], VisitNonEmpty))
      /\ \A i, j \in 1..Len(visits[t]) : i # j => visits[t][i].key # visits[t][j].key
      /\ t \in tableReaders =>
           VisitedKeys(t) \cup todo[t]
             \cup (IF pc[t] \in {"lock_shared", "wait_shared", "body"}
                   THEN {arg[t].key} ELSE {}) = PresentKeys
      /\ pc[t] = "idle" => todo[t] = {}

\* A finished forEachKey that visited a key with values and a key whose list
\* is empty, and called the procedure for the first only.
C10_Witness ==
  \E t \in Threads :
    /\ arg[t].op = "forEachKey" /\ pc[t] = "idle"
    /\ Len(visits[t]) = 2
    /\ Len(calls[t]) = 1
    /\ \E i \in 1..2 : ~visits[t][i].nonempty

\* The step is a call by thread t, on key k, of an operation that looks the
\* key up without creating it.
LookupCall(t, k) ==
  /\ nops' # nops /\ pc[t] = "idle"
  /\ arg'[t].key = k
  /\ \/ arg'[t].op \in {"get", "contains"} /\ Table_getShared(t, arg'[t])
     \/ arg'[t].op \in {"remove", "replace", "removeKey"} /\ Table_getUnique(t, arg'[t])

\* C11: get, contains, remove, replace and remove(key) on a key that is not
\* in the table return at once with the empty result (no list, an iterator
\* without values, false, 0) and leave the key table and the store as they
\* are: no key and no list is created.
C11_MissingKeyStep ==
  \A t \in Threads : \A k \in Keys :
    (map_[k] = NoList /\ LookupCall(t, k))
      => /\ pc'[t] = "idle"
         /\ ret'[t] = NoResult
         /\ map_' = map_
         /\ store' = store

C11_MissingKeyLookupIsEmptyAndCreatesNothing == [][C11_MissingKeyStep]_vars

\* A table with a key in it after a lookup of another key, never inserted,
\* that returned the empty result.
C11_Witness ==
  \E t \in Threads :
    /\ isOpen /\ keysFile = {}
    /\ arg[t].op \in {"get", "contains", "remove", "replace", "removeKey"}
    /\ pc[t] = "idle" /\ ret[t] = NoResult
    /\ map_[arg[t].key] = NoList
    /\ PresentKeys # {}

\* C12: getUniqueOrCreate on an absent key inserts exactly one entry, with an
\* empty list, and on a present key inserts nothing and keeps the list; the
\* caller goes on to hold that list uniquely, and the key stays in the table
\* for getShared and getUnique to find, also when several threads call it
\* for the same absent key.
C12_GetUniqueOrCreateStep ==
  \A t \in Threads : \A k \in Keys :
    (/\ nops' # nops /\ pc[t] = "idle"
     /\ arg'[t].op = "put" /\ arg'[t].key = k
     /\ Table_getUniqueOrCreate(t, k, arg'[t].val))
      => /\ map_' = IF map_[k] = NoList
                    THEN [map_ EXCEPT ![k] = NewList(EmptyHead)]
                    ELSE map_
         /\ PresentKeys' = PresentKeys \cup {k}
         /\ pc'[t] = "lock_unique"

C12_HandleOnTableList ==
  \A t \in Threads :
    arg[t].op = "put" /\ pc[t] \in {"lock_unique", "wait_unique", "body", "unlock"}
      => /\ Present(arg[t].key)
         /\ pc[t] \in {"body", "unlock"} => Holds(t, arg[t].key, "unique")
         /\ pc[t] \in {"wait_unique", "body", "unlock"}
              => map_[arg[t].key].mutex_use_count_ >= 1

C12_GetUniqueOrCreateInsertsOnce ==
  []C12_HandleOnTableList /\ [][C12_GetUniqueOrCreateStep]_vars

\* Both threads have called getUniqueOrCreate for the same new key: one
\* holds the new, empty list, the other one waits for it.
C12_Witness ==
  \E t1, t2 \in Threads : \E k \in Keys :
    /\ arg[t1].op = "put" /\ arg[t2].op = "put"
    /\ arg[t1].key = k /\ arg[t2].key = k
    /\ pc[t1] = "body" /\ pc[t2] = "wait_unique"
    /\ Present(k) /\ hist[k] = <<>> /\ nops = 2
    /\ map_[k].head = EmptyHead

\* The elements of seq at the positions in S, in order.
SeqAt(seq, S) == [i \in 1..Cardinality(S) |-> seq[SortedSeq(S)[i]]]

\* The positions, in a sequence of values, that a callable accepting the
\* values in accepted acts on: the first such position or all of them.
ActsOn(values, accepted, apply_to_all) ==
  LET M == {i \in 1..Len(values) : values[i] \in accepted}
  IN IF apply_to_all \/ M = {} THEN M ELSE {SetMin(M)}

\* What a replace step of thread t must do to the list it acts on.
ReplaceEffect(t) ==
  LET k == arg[t].key
      fn == arg[t].fn
      before == Readable(k)
      R == ActsOn(before, Accepted(fn), arg[t].all)
      untouched == SeqAt(before, (1..Len(before)) \ R)
      replacements == [i \in 1..Cardinality(R) |-> fn[SeqAt(before, R)[i]]]
      entries == AllEntries(map_[k], store)
  IN /\ Readable(k)' = untouched \o replacements
     /\ Len(Readable(k)') = Len(before)
     /\ Len(AllEntries(map_[k], store)') = Len(entries) + Cardinality(R)
     /\ \A i \in 1..Len(entries) : AllEntries(map_[k], store)'[i].val = entries[i].val

IsReplaceStep(t) == pc[t] = "body" /\ arg[t].op = "replace" /\ pc'[t] = "unlock"

\* C13: replace never rewrites in place: each replaced value is tombstoned
\* and its replacement appended at the end, so afterwards iteration yields
\* the untouched values in their original order followed by the replacements
\* in the order of their originals, and the number of valid values is as
\* before the call.
C13_ReplaceStep == \A t \in Threads : IsReplaceStep(t) => ReplaceEffect(t)

C13_ReplaceIsTombstonePlusAppend == [][C13_ReplaceStep]_vars

\* The same for the calls all of whose replacement values the list accepts.
C13_AcceptedReplaceStep ==
  \A t \in Threads : IsReplaceStep(t) /\ ~err'[t] => ReplaceEffect(t)

C13_AcceptedReplaceIsTombstonePlusAppend == [][C13_AcceptedReplaceStep]_vars

\* What a remove step of thread t must do to the list it acts on and return.
RemoveEffect(t) ==
  LET k == arg[t].key
      before == Readable(k)
      R == ActsOn(before, {arg[t].val}, arg[t].all)
      entries == AllEntries(map_[k], store)
      valid == SortedSeq({i \in 1..Len(entries) : IsValid(entries[i])})
      hit == {valid[j] : j \in R}
  IN /\ Readable(k)' = SeqAt(before, (1..Len(before)) \ R)
     /\ ret'[t].count = Cardinality(R)
     /\ (~arg[t].all) => (ret'[t].count = 1 <=> \E i \in 1..Len(before) : before[i] = arg[t].val)
     /\ Len(AllEntries(map_[k], store)') = Len(entries)
     /\ \A i \in 1..Len(entries) :
          /\ AllEntries(map_[k], store)'[i].val = entries[i].val
          /\ AllEntries(map_[k], store)'[i].deleted <=> (entries[i].deleted \/ i \in hit)

\* C14: removeValue tombstones exactly the first valid value, in list order,
\* that satisfies the predicate and returns whether there was one;
\* removeValues tombstones every valid value satisfying it and returns their
\* count; all other values stay valid and keep their order.
C14_RemoveStep ==
  \A t \in Threads :
    (pc[t] = "body" /\ arg[t].op = "remove" /\ pc'[t] = "unlock") => RemoveEffect(t)

C14_RemoveFirstOrAll == [][C14_RemoveStep]_vars

\* A removeValue has tombstoned the first of two equal values: it returned
\* one, and the second one is still yielded.
C14_Witness ==
  \E t \in Threads :
    /\ arg[t].op = "remove" /\ ~arg[t].all /\ pc[t] = "unlock"
    /\ ret[t].count = 1
    /\ Readable(arg[t].key) = <<arg[t].val>>
    /\ AllEntries(map_[arg[t].key], store)[1].deleted

\* The handles that hold the map's directory: open on it, or optimizing it.
Holding(h) == maps[h] \in {"open", "optimizing"}

C15_LockInv ==
  /\ \A h1, h2 \in Handles : Holding(h1) /\ Holding(h2) => h1 = h2
  /\ \A h \in Handles : Holding(h) <=> lock_ = h

C15_OpenStep ==
  \A h \in Handles :
    (~Holding(h) /\ maps'[h] # maps[h] /\ maps'[h] # "closed") =>
      IF lock_ = 0
        THEN Holding(h)' /\ lock_' = h
        ELSE maps'[h] = "locked" /\ lock_' = lock_ /\ partitions_' = partitions_

C15_CloseStep ==
  \A h \in Handles : (Holding(h) /\ ~Holding(h)') => lock_' = 0 /\ maps'[h] = "closed"

\* C15: at most one handle holds the map's directory at a time: the lock is
\* held by a handle exactly from its open to its close, an open while another
\* handle holds the lock fails with "locked" and changes nothing, and an open
\* after the close takes the lock and succeeds.
C15_OneHandlePerDirectory ==
  []C15_LockInv /\ [][C15_OpenStep /\ C15_CloseStep]_vars

\* A second handle was refused while the first, opened after an earlier
\* handle had put a value and closed, holds the directory.
C15_Witness ==
  /\ maps[1] = "open" /\ maps[2] = "locked" /\ lock_ = 1
  /\ MapSize > 0 /\ got.called /\ got.values # <<>>

C16_CloseStep ==
  (isOpen /\ ~isOpen' /\ skipped' # {}) =>
    \A e \in keysFile : e.key \in skipped' => e \in keysFile'

\* C16: when close skips a list that is still locked, the keys file persisted
\* before stays as the recovery state: the entry it holds for the skipped
\* list is still in the keys file after the close.
C16_CloseKeepsPersistedEntryOfSkippedList == [][C16_CloseStep]_vars

C17_KeyStaysStep == (isOpen /\ isOpen') => PresentKeys \subseteq PresentKeys'

C17_LastValueRemovedStep ==
  \A t \in Threads :
    (pc[t] = "body" /\ pc'[t] # "body" /\ arg[t].op \in {"remove", "removeKey"}
       /\ Iterate(map_'[arg[t].key], store') = <<>>) =>
      /\ map_'[arg[t].key] # NoList
      /\ List_empty(map_'[arg[t].key])
      /\ map_'[arg[t].key].head.num_values_total = map_[arg[t].key].head.num_values_total

\* C17: while the partition is open, a key that is in the key table is still
\* in it after every step of every operation; a remove that takes away the
\* last values of a key leaves the key in the table with an empty list.
C17_KeyOncePresentStaysPresent ==
  [][C17_KeyStaysStep /\ C17_LastValueRemovedStep]_vars

\* Every value of a key was removed, the key is still in the table, and a
\* later call found its list.
C17_Witness ==
  \E t \in Threads, k \in Keys :
    /\ Present(k) /\ List_empty(map_[k]) /\ map_[k].head.num_values_total > 0
    /\ pc[t] = "idle" /\ arg[t].key = k /\ arg[t].op = "contains"
    /\ ret[t].hasList /\ ~ret[t].truth

StrictlyIncreasing(ids) == \A i, j \in 1..Len(ids) : i < j => ids[i] < ids[j]

HeadIdsOk(head) ==
  LET ids == UintVector_unpack(head.block_ids)
  IN StrictlyIncreasing(ids) /\ \A i \in 1..Len(ids) : ids[i] < Len(store)

\* C18: in every reachable state the block ids of every list head, in the
\* key table and in the keys file, are strictly increasing and each of them
\* is the id of a block the store holds, also when the lists of several keys
\* commit their blocks in turn.
C18_BlockIdsIncreasingAndAllocated ==
  /\ \A k \in Keys : map_[k] # NoList => HeadIdsOk(map_[k].head)
  /\ \A e \in keysFile : HeadIdsOk(e.head)

\* Two keys committed blocks in turn: a block of one lies between two blocks
\* of the other.
C18_Witness ==
  \E k1, k2 \in Keys :
    /\ k1 # k2 /\ Present(k1) /\ Present(k2)
    /\ Len(CommittedIds(k1)) >= 2 /\ Len(CommittedIds(k2)) >= 1
    /\ CommittedIds(k1)[1] < CommittedIds(k2)[1]
    /\ CommittedIds(k2)[1] < CommittedIds(k1)[2]

\* A call made after a failed add, with no successful add in between.
AfterFailedAdd == vecBefore.failed

C19_UnpackStep ==
  (AfterFailedAdd /\ vecCall'.op = "unpack" /\ vecCall' # vecCall) =>
    ~vecCall'.crashed /\ vecCall'.values = vecBefore.values

C19_LaterAddStep ==
  (AfterFailedAdd /\ vecCall'.op = "add" /\ <<vector, vecCall>>' # <<vector, vecCall>>
     /\ vecCall'.value - vector.last <= N4_MAX_UINT) =>
    /\ vecCall'.ok /\ ~vecCall'.crashed
    /\ UintVector_unpack(vector') = Append(vecBefore.values, vecCall'.value)
    /\ vector'.cut = 0

\* C19: when add returns false the vector is as it was before the call:
\* unpack yields the values it yielded before, and a later add of a value
\* within N4_MAX_UINT of the last one succeeds and appends after it.
C19_FailedAddLeavesVectorUnchanged == [][C19_UnpackStep /\ C19_LaterAddStep]_vars

\* The partition of a key: its hash modulo the number of partitions.
PartitionOf(key) == HashMod(fnv1aHash(key), NumPartitions)

C20_RoutingInv ==
  /\ routed.called => routed.index = PartitionOf(routed.key)
  /\ \A key \in MapKeys :
       /\ partitions_[PartitionOf(key)][key] = expected[key]
       /\ \A i \in Partitions : i # PartitionOf(key) => partitions_[i][key] = <<>>

C20_GetStep ==
  (got' # got) =>
    /\ routed'.key = got'.key /\ routed'.index = PartitionOf(got'.key)
    /\ got'.values = expected[got'.key]

\* C20: with the number of partitions fixed, every call on one key K goes to
\* the partition fnv1a(K) mod num_partitions whatever the map holds and
\* whatever was called before: the values of K are in that partition only,
\* and get(K) yields the values the calls on K have left.
C20_HashDispatchStable == []C20_RoutingInv /\ [][C20_GetStep]_vars

\* Two keys of different partitions hold values, and a get found the values
\* put under its key.
C20_Witness ==
  \E k1, k2 \in MapKeys :
    /\ PartitionOf(k1) # PartitionOf(k2)
    /\ expected[k1] # <<>> /\ expected[k2] # <<>>
    /\ got.called /\ got.key = k1 /\ got.values = expected[k1]
    /\ routed.key = k1 /\ routed.index = PartitionOf(k1)

\* No thread but t holds list k, in either mode.
OthersLeaveAlone(t, k) ==
  \A u \in Threads \ {t} : ~Holds(u, k, "shared") /\ ~Holds(u, k, "unique")

\* C21: the locks of the lists of different keys are independent: a thread
\* that asks for the shared or the unique lock of a list no other thread
\* holds gets it without waiting, whatever lists of other keys are held, and
\* the lookup of a key is never kept waiting.
C21_ListLocksIndependent ==
  \A t \in Threads :
    /\ (pc[t] = "wait_shared" /\ OthersLeaveAlone(t, arg[t].key))
         => ENABLED List_LockShared_wait(t)
    /\ (pc[t] = "wait_unique" /\ OthersLeaveAlone(t, arg[t].key))
         => ENABLED List_LockUnique_wait(t)
    /\ (pc[t] = "lock_shared") => ENABLED List_LockShared_enter(t)
    /\ (pc[t] = "lock_unique") => ENABLED List_LockUnique_enter(t)
    /\ CanStart(t) => ENABLED Shard_get(t) /\ ENABLED Shard_remove(t)

\* A thread holds the list of one key uniquely while another thread is about
\* to take, or holds, the list of another key.
C21_Witness ==
  \E t1, t2 \in Threads : \E k1, k2 \in Keys :
    /\ t1 # t2 /\ k1 # k2
    /\ Holds(t1, k1, "unique") /\ pc[t1] = "body"
    /\ Holds(t2, k2, "unique") /\ pc[t2] = "body" /\ arg[t2].op = "remove"

C22_StatsStep ==
  \A t \in Threads :
    (nops' # nops /\ pc[t] = "idle" /\ arg'[t].op = "stats" /\ Table_getStats(t)) =>
      /\ pc'[t] = "idle" /\ map_' = map_
      /\ ret'[t].count = Cardinality(PresentKeys)
      /\ ret'[t].locked = {k \in PresentKeys : \E u \in Threads : Holds(u, k, "unique")}

C22_StatsNeverWaits ==
  \A t \in Threads : CanStart(t) => ENABLED Table_getStats(t)

C22_ReaderWitness ==
  \E t, u \in Threads :
    /\ pc[t] = "idle" /\ arg[t].op = "stats" /\ ret[t].locked = {} /\ ret[t].count > 0
    /\ Holds(u, arg[u].key, "shared")

\* The values an iterator had to yield when it was made.
Iter_all(it) == ValuesOf(SelectSeq(it.entries, IsValid))

\* C23: an iterator over a list with n valid values has available() = n
\* when it is made, each next() yields the next valid value and takes
\* exactly one off available(), hasNext() is true iff available() > 0, and
\* after n calls of next() available() is 0 and hasNext() is false.
C23_AvailableCountsDown ==
  \A t \in Threads :
    iter[t].active =>
      /\ Iter_available(iter[t]) + Len(iter[t].yielded) = Len(Iter_all(iter[t]))
      /\ iter[t].yielded = SubSeq(Iter_all(iter[t]), 1, Len(iter[t].yielded))
      /\ Iter_hasNext(iter[t]) <=> Iter_available(iter[t]) > 0

\* An iterator over a list with two valid values has yielded both.
C23_Witness ==
  \E t \in Threads :
    /\ iter[t].active /\ Len(iter[t].yielded) = 2
    /\ Len(Iter_all(iter[t])) = 2
    /\ Iter_available(iter[t]) = 0 /\ ~Iter_hasNext(iter[t])

\* An iterator over a list whose only value was removed has nothing to yield.
C23_TombstoneWitness ==
  \E t \in Threads :
    /\ iter[t].active
    /\ \E i \in 1..Len(iter[t].entries) : ~IsValid(iter[t].entries[i])
    /\ Iter_available(iter[t]) = 0 /\ ~Iter_hasNext(iter[t])

\* Thread t is inside a procedure that asks for write access to the list
\* it was called with.
WritesVisited(t) ==
  /\ pc[t] = "procedure"
  /\ nested[t].op \in {"getMutable", "put"}
  /\ nested[t].key = arg[t].key

\* A thread inside a procedure waits for the table lock and neither it nor
\* a thread waiting for the table lock exclusively can go on.
NestedLookupStuck(t) ==
  /\ pc[t] = "procedure" /\ nested[t].pc = "table"
  /\ nested[t].op \in {"get", "getMutable"}
  /\ ~ENABLED Nested_lookup(t)
  /\ \A u \in tableWriters : ~ENABLED Table_getUniqueOrCreate_locked(u)

\* C24: a procedure given to forEachKey may call get on any key, and the
\* call inside the procedure completes in every interleaving with the put
\* and get calls of other threads: it is never stuck.
C24_NestedGetCompletes ==
  \A t \in Threads : nested[t].op = "get" => ~NestedLookupStuck(t)

\* C25 (states): a procedure that asks for write access to the list it was
\* called with never gets it.
C25_NeverAcquires ==
  \A t \in Threads : WritesVisited(t) => nested[t].pc \notin {"holding", "done"}

\* C25 (steps): such a procedure stays inside its call, so forEachKey does
\* not return.
C25_NeverReturnsStep ==
  \A t \in Threads : WritesVisited(t) => WritesVisited(t)'

\* C25: a procedure that re-enters the list forEachKey is visiting with a
\* write request (getMutable or put on the key it was called with) never
\* acquires the list, and forEachKey never returns.
C25_WriteReentryDeadlocks == []C25_NeverAcquires /\ [][C25_NeverReturnsStep]_vars

\* A procedure waits for the unique lock of the list it was called with,
\* which its own thread holds shared, while no other thread is in a call.
C25_Witness ==
  \E t \in Threads :
    /\ WritesVisited(t) /\ nested[t].op = "getMutable" /\ nested[t].pc = "wait"
    /\ Holds(t, arg[t].key, "shared")
    /\ ~ENABLED ProcedureStep(t)
    /\ \A u \in Threads \ {t} : pc[u] = "idle"

\* A procedure waits for the table lock exclusively, which its own thread
\* holds shared.
C25_PutWitness ==
  \E t \in Threads :
    /\ WritesVisited(t) /\ nested[t].op = "put" /\ nested[t].pc = "table_unique"
    /\ t \in tableReaders /\ t \in tableWriters
    /\ ~ENABLED ProcedureStep(t)

\* No thread that holds the table lock waits for a list lock another thread
\* holds.
C26_NotBlockedUnderTableLock ==
  \A t \in tableReaders :
    /\ pc[t] = "wait_shared" => ENABLED List_LockShared_wait(t)
    /\ pc[t] = "wait_unique" => ENABLED List_LockUnique_wait(t)

\* No thread that holds the table lock commits a block to the store.
C26_NoCommitUnderTableLock ==
  \A t \in tableReaders : Table_flush_list(t) => store' = store

\* C26: the table lock of a partition is held only briefly: in no reachable
\* state is it held by a thread that performs store or file I/O or that is
\* blocked waiting for a list lock.
C26_TableLockHeldBriefly ==
  []C26_NotBlockedUnderTableLock /\ [][C26_NoCommitUnderTableLock]_vars

\* Thread t takes the step of Shard::put that appends a value larger than
\* one block.
LargeAppend(t) == Shard_put_add(t) /\ SizeOf(arg[t].val) > BlockSize

Scanning(t) == pc[t] = "stats"

SourceHead(k) == (CHOOSE e \in keysFile : e.key = k).head

\* C29: optimize without a comparator writes for every key of the source
\* exactly the source's values that are not deleted, in their source order;
\* the head of each list of the output has num_values_deleted = 0 and
\* num_values_total equal to the source's number of valid values, and the
\* output has no other key.
C29_OptimizeCopiesValidValues ==
  output.written =>
    \A k \in Keys :
      IF \E e \in keysFile : e.key = k
      THEN /\ output.heads[k] # NoList
           /\ Iterate(NewList(output.heads[k]), output.store)
                = Iterate(NewList(SourceHead(k)), store)
           /\ ValuesOf(AllEntries(NewList(output.heads[k]), output.store))
                = Iterate(NewList(SourceHead(k)), store)
           /\ output.heads[k].num_values_deleted = 0
           /\ output.heads[k].num_values_total
                = SourceHead(k).num_values_total - SourceHead(k).num_values_deleted
           /\ output.heads[k].num_values_total
                = Len(Iterate(NewList(SourceHead(k)), store))
      ELSE output.heads[k] = NoList

\* optimize has copied a list that holds a deleted value before a valid one.
C29_Witness ==
  /\ output.written
  /\ \E k \in Keys :
       /\ \E e \in keysFile : e.key = k
       /\ SourceHead(k).num_values_deleted > 0
       /\ output.heads[k].num_values_total = 1
       /\ ~IsValid(AllEntries(NewList(SourceHead(k)), store)[1])

\* The entries of the committed blocks of a list, read from the store.
CommittedEntries(list, st) == ReadBlocks(st, UintVector_unpack(list.head.block_ids))

SameTable(f, g) ==
  /\ Readable_file(f) /\ Readable_file(g)
  /\ {f.entries[i] : i \in 1..Len(f.entries)} = {g.entries[i] : i \in 1..Len(g.entries)}

\* C31: if the process stops at any step of close, the open that follows
\* finds at the path of the keys file either the complete previous key table
\* or the complete new one: the file is never missing and never partially
\* written.
C31_OpenFindsCompleteKeysFile ==
  reopened.tried =>
    /\ Readable_file(reopened.file)
    /\ SameTable(reopened.file, reopened.before) \/ SameTable(reopened.file, reopened.after)

\* The stops that leave no keys file, and those that leave a part of one.
C31_MissingWitness == reopened.tried /\ ~reopened.file.exists
C31_PartialWitness ==
  reopened.tried /\ reopened.file.exists /\ ~Readable_file(reopened.file)
C31_CompleteWitness ==
  /\ reopened.tried /\ reopened.before # reopened.after
  /\ SameTable(reopened.file, reopened.after)

\* What a flush step of thread t does to the list of its key.
FlushEffect(t) ==
  LET k == arg[t].key
      before == map_[k]
      after == map_'[k]
      again == List_Flush(after, store')
  IN /\ ~after.block_.has_data
     /\ IF before.block_.has_data
        THEN /\ store' = Append(store, before.block_.entries)
             /\ UintVector_unpack(after.head.block_ids)
                  = Append(UintVector_unpack(before.head.block_ids), Len(store))
        ELSE /\ store' = store
             /\ after.head.block_ids = before.head.block_ids
     /\ Iterate(after, store') = Iterate(before, store)
     /\ again.store = store'
     /\ again.list = after

C32_FlushStep ==
  \A t \in Threads :
    (pc[t] = "body" /\ arg[t].op = "flush" /\ pc'[t] = "unlock") => FlushEffect(t)

\* C32: flush commits the tail block to the store iff a tail exists, records
\* the id the store returned in block_ids and leaves the tail absent; the
\* values iteration yields stay the same, and a second flush without an
\* append in between commits nothing and leaves block_ids unchanged.
C32_FlushCommitsTailOnce == [][C32_FlushStep]_vars

\* A flush has just committed the tail of a list that holds values: the last
\* block of the store is the last block of the list.
C32_Witness ==
  \E t \in Threads :
    /\ pc[t] = "unlock" /\ arg[t].op = "flush"
    /\ Present(arg[t].key)
    /\ ~map_[arg[t].key].block_.has_data
    /\ Iterate(map_[arg[t].key], store) # <<>>
    /\ CommittedIds(arg[t].key) # <<>>
    /\ CommittedIds(arg[t].key)[Len(CommittedIds(arg[t].key))] = Len(store) - 1

\* C33: outside of a lock or unlock call the mutex of a list exists exactly
\* when its use count is above 0, the use count is the number of threads that
\* hold the mutex or wait for it, and the mutex is not destroyed or replaced
\* under them: it exists and records exactly its shared and exclusive owners,
\* in every interleaving of LockShared, LockUnique, TryLock* and Unlock*.
C33_LazyLockLifetime ==
  \A k \in Keys :
    /\ locks[k].mutex_.exists <=> locks[k].mutex_use_count_ > 0
    /\ locks[k].mutex_use_count_ = Cardinality(Users(k))
    /\ Users(k) # {} =>
         /\ locks[k].mutex_.exists
         /\ locks[k].mutex_.shared = Cardinality(Owners(k, "shared"))
         /\ locks[k].mutex_.exclusive <=> Owners(k, "unique") # {}
    /\ Cardinality(Owners(k, "unique")) <= 1

\* A TryLockUnique has just failed on a list that one thread holds shared
\* and for which another thread waits; the mutex is the one they use.
C33_Witness ==
  \E k \in Keys :
    /\ tried = [key |-> k, op |-> "TryLockUnique", locked |-> FALSE]
    /\ Owners(k, "shared") # {}
    /\ Owners(k, "wait_unique") # {}
    /\ locks[k].mutex_use_count_ = 2

\* A TryLockShared got the lock and the last user has left since: the mutex
\* is gone.
C33_ReleasedWitness ==
  \E k \in Keys :
    /\ tried = [key |-> k, op |-> "TryLockShared", locked |-> TRUE]
    /\ Users(k) = {}
    /\ ~locks[k].mutex_.exists

\* C34: the store's advised access pattern is SEQUENTIAL only while a
\* forEachEntry is in progress: whenever no forEachEntry is executing (and
\* one has run) it is RANDOM, also after a scan that ended because the
\* procedure failed and also when two scans overlapped.
C34_RandomWheneverNoScan ==
  (/\ \A t \in Threads : scanner[t].pc = "idle"
   /\ \E t \in Threads : scanner[t].ended # "never")
    => pattern = "RANDOM"

\* Scans that returned leave RANDOM behind, also when they overlapped.
C34_ReturnedWitness ==
  /\ \A t \in Threads : scanner[t] = [NotScanning EXCEPT !.ended = "returned"]
  /\ pattern = "RANDOM"

\* A scan whose procedure threw has left SEQUENTIAL behind.
C34_ThrownWitness ==
  /\ \A t \in Threads : scanner[t].pc = "idle"
  /\ \E t \in Threads : scanner[t].ended = "thrown"
  /\ pattern = "SEQUENTIAL"

\* Thread t is back from a forEachKey that its procedure made fail.
FailedForEachKey(t) == pc[t] = "idle" /\ arg[t].op = "forEachKey" /\ err[t]

\* C35: if the procedure passed to forEachKey fails, the iteration stops at
\* that key (it is the last one visited and the last one the procedure was
\* called with), the failure reaches the caller, and the table lock and the
\* shared lock of the visited list are released: the thread holds nothing,
\* and a writer on any key can start and can take the list it waits for.
C35_FailedForEachKeyReleasesLocks ==
  \A t \in Threads :
    FailedForEachKey(t) =>
      /\ t \notin tableReaders
      /\ held[t] = "none"
      /\ calls[t] # <<>>
      /\ calls[t][Len(calls[t])] = visits[t][Len(visits[t])].key
      /\ \A k \in PresentKeys :
           map_[k].mutex_use_count_ =
             Cardinality({u \in Threads \ {t} :
                            /\ arg[u].key = k
                            /\ pc[u] \in {"wait_shared", "wait_unique", "body", "unlock", "reading"}})
      /\ \A u \in Threads \ {t} :
           /\ (pc[u] = "wait_unique"
               /\ \A w \in Threads \ {u} : ~Holds(w, arg[u].key, "shared")
                                           /\ ~Holds(w, arg[u].key, "unique"))
                => ENABLED List_LockUnique_wait(u)
           /\ (CanStart(u) /\ \A w \in Threads \ {t, u} : pc[w] = "idle")
                => ENABLED Shard_put(u)

\* The procedure failed on a key while a second key was still to be visited,
\* and a put of another thread has taken the list of the failed key since.
C35_Witness ==
  \E t, u \in Threads :
    /\ t # u
    /\ FailedForEachKey(t)
    /\ arg[u].op = "put" /\ pc[u] = "body"
    /\ arg[u].key = calls[t][Len(calls[t])]
    /\ Holds(u, arg[u].key, "unique")

\* The failure came before the last key: the rest of the table is unvisited.
C35_StoppedWitness ==
  \E t \in Threads :
    /\ FailedForEachKey(t)
    /\ todo[t] # {}
    /\ \A k \in todo[t] : Present(k) /\ ~List_empty(map_[k])

\* C36: every block a list commits to the store, on a full tail during an
\* append or on flush, has the id the store returned recorded in the block
\* ids of the list, for any id the store may return: the ids read from the
\* head are exactly the ids returned, in order.
C36_CommittedIdsRecorded ==
  /\ ~committing.crashed
  /\ \A r \in UintVector_unpack_outcomes(committing.list.head.block_ids) :
       ~r.crashed /\ r.values = committing.returned

\* Commits whose ids lie close to each other are all recorded.
C36_NearWitness ==
  /\ Len(committing.returned) = MaxCommits
  /\ committing.grown = MaxGrowths
  /\ UintVector_unpack_outcomes(committing.list.head.block_ids)
       = {[crashed |-> FALSE, values |-> committing.returned]}

\* The store returned an id further than N4_MAX_UINT from the one before,
\* and the head does not hold it.
C36_FarWitness ==
  /\ Len(committing.returned) = 2
  /\ committing.returned[2] - committing.returned[1] > N4_MAX_UINT
  /\ \A r \in UintVector_unpack_outcomes(committing.list.head.block_ids) :
       r.crashed \/ r.values # committing.returned

\* Thread t holds a list uniquely and is inside a put on another key.
HolderInPut(t) == pc[t] = "procedure" /\ arg[t].op = "getMutable"

\* C37: a thread that holds a unique handle on key k1 and then calls put
\* (getUniqueOrCreate) for a key k2 always eventually returns from the put,
\* also while another thread runs forEachKey or flushAllListsAndWaitIfLocked:
\* no deadlock arises between the table lock and the list locks.
C37_HolderPutReturns ==
  \A t \in Threads : HolderInPut(t) ~> (pc[t] = "unlock")

\* The holder waits for the table lock, which a scanning thread holds shared
\* while it waits for the holder's list: neither can take a step.
C37_DeadlockWitness ==
  \E t, u \in Threads :
    /\ HolderInPut(t) /\ nested[t].pc = "table_unique" /\ t \in tableWriters
    /\ u \in tableReaders /\ pc[u] \in {"wait_shared", "wait_unique"}
    /\ arg[u].key = arg[t].key
    /\ Holds(t, arg[t].key, "unique")
    /\ map_[nested[t].key] = NoList
    /\ ~ENABLED HolderStep(t) /\ ~ENABLED HolderStep(u)

\* Without a scan in its way the put of a holder does return.
C37_ReturnedWitness ==
  \E t \in Threads :
    /\ pc[t] = "unlock" /\ arg[t].op = "getMutable"
    /\ Holds(t, arg[t].key, "unique")
    /\ \A k \in Keys : map_[k] # NoList

\* C38: close never destroys state that another thread is using: a list
\* handle obtained before the close refers to a live list of the table until
\* the handle is dropped, also for the lists close skipped because they were
\* locked, and dropping it is no access to a destroyed list.
C38_HandleRefersToLiveList ==
  \A t \in Threads :
    /\ pc[t] \notin {"dangling", "crashed"}
    /\ held[t] # "none" => Present(arg[t].key)

\* A thread holds an iterator on a list that close found locked, skipped and
\* destroyed with the rest of the table.
C38_SkippedWitness ==
  \E t \in Threads :
    /\ pc[t] = "dangling" /\ held[t] = "shared"
    /\ arg[t].key \in skipped
    /\ ~isOpen /\ map_[arg[t].key] = NoList

C40_FailedReplaceStep ==
  \A t \in Threads :
    (IsReplaceStep(t) /\ err'[t]) => Readable(arg[t].key)' = Readable(arg[t].key)

\* C40: if appending a replacement value fails inside replace (for example
\* because the new value is too large), the valid contents of the list are
\* as before the call: no original value is left tombstoned without its
\* replacement.
C40_FailedReplaceKeepsContents == [][C40_FailedReplaceStep]_vars

\* A replace has failed and the list has lost the value it was to replace.
C40_LostWitness ==
  \E t \in Threads :
    /\ pc[t] = "unlock" /\ arg[t].op = "replace" /\ err[t]
    /\ Present(arg[t].key)
    /\ map_[arg[t].key].head.num_values_deleted >= 1
    /\ \A i \in 1..Len(hist[arg[t].key]) : hist[arg[t].key][i].removed
    /\ Readable(arg[t].key) = <<>>

\* Thread t is inside a replace that has set its tombstones and has not yet
\* appended all replacements.
Midway(t) == arg[t].op = "replace" /\ pc[t] \in {"release", "adding"}

\* C39: replace is atomic for readers of the same key: from the first
\* tombstone to the last appended replacement the thread holds the unique
\* lock of the list, so no other thread holds the list, a reader waiting for
\* it cannot get it, and a stats reader finds it locked.
C39_ReplaceHoldsLockThroughout ==
  \A t \in Threads :
    Midway(t) =>
      /\ Holds(t, arg[t].key, "unique")
      /\ map_[arg[t].key].mutex_.exclusive
      /\ \A u \in Threads \ {t} :
           /\ ~Holds(u, arg[t].key, "shared") /\ ~Holds(u, arg[t].key, "unique")
           /\ (pc[u] = "wait_shared" /\ arg[u].key = arg[t].key)
                => ~ENABLED List_LockShared_wait(u)
      /\ ~List_TryLockShared(map_[arg[t].key]).locked

\* A replace has tombstoned the only value of a list and not yet appended
\* its replacement, and a get of the same key waits for the list.
C39_Witness ==
  \E t, u \in Threads :
    /\ t # u /\ Midway(t) /\ pc[t] = "adding"
    /\ Len(to_append[t]) = 1
    /\ map_[arg[t].key].head.num_values_deleted = 1
    /\ Readable(arg[t].key) = <<>>
    /\ arg[u].op = "get" /\ arg[u].key = arg[t].key /\ pc[u] = "wait_shared"
====
